---- MODULE Spec2Model ----
(***************************************************************************)
(* Model of the wp-mcp content pipeline: the markdown-to-Gutenberg         *)
(* converter (markdownToGutenberg) and the hint expander (enhanceHints).   *)
(*                                                                         *)
(* A text is a sequence of lines; a line is a sequence of tokens.  A token *)
(* is a string standing for the literal characters it spells; the regular  *)
(* expressions of the source are translated to tests on the tokens of a    *)
(* line (a prefix test for ^..., a suffix test for ...$, a search for      *)
(* includes).  The token " " is the only whitespace token.  A backtick     *)
(* cannot be written in a string here: the code fence is spelled "~~~" and *)
(* the code-span mark "~".                                                 *)
(***************************************************************************)
EXTENDS Integers, Sequences, FiniteSets, TLC

\* ---------------------------------------------------------------- bounds
\* Longest input text, in lines, made of the lines of one family (block
\* markup with code and shortcodes, or markdown blocks).
MaxLines == 4

\* Longest input text, in lines, that mixes the lines of all families.
MaxMixedLines == 3

\* Longest text of hint syntax given to enhanceHints, in lines.
MaxHintLines == 3
MaxFaqLines == 4
MaxTakeawayLines == 9

\* Longest text given to stripAiCommentary, in lines.
MaxStripLines == 4

\* Longest text given twice to the same function, in lines.
MaxTwiceLines == 2

\* Longest content of a convert request, in lines.
MaxPipeLines == 2

\* Lines of a text given to one stage when its passes are followed.
MaxStageLines == 3

\* WordPressAPI: network requests of one run, calls waiting for an answer at
\* once, the last clock value.
MaxRequests == 3
MaxPending == 2
MaxClock == 1

\* Distinct pages requested in a row when the cache is filled.
MaxFillKeys == 1002

\* Network requests of a run in which calls are retried.
MaxRetryRequests == 5

\* Decisions in one register_types call.
MaxDecisions == 1

\* Network requests after which no tool call starts.
MaxToolRequests == 2

\* logCorrection calls of a run.
MaxLogged == 103

\* posts create calls of a run.
MaxCreateCalls == 3

\* Longest body of a product-roundup given to enhanceHints, in lines.
MaxProductLines == 2

\* ------------------------------------------------------- line primitives
RECURSIVE Concat(_)
\* Array.join("") of a sequence of token sequences.
Concat(ss) == IF ss = <<>> THEN <<>> ELSE Head(ss) \o Concat(Tail(ss))

RECURSIVE JoinWith(_, _)
\* Array.join(sep) of lines into one line, sep being a token.
JoinWith(ss, sep) ==
  IF ss = <<>> THEN <<>>
  ELSE IF Len(ss) = 1 THEN ss[1]
  ELSE ss[1] \o <<sep>> \o JoinWith(Tail(ss), sep)

StartsWith(line, tok) == Len(line) >= 1 /\ line[1] = tok

EndsWith(line, tok) == Len(line) >= 1 /\ line[Len(line)] = tok

RECURSIVE TrimStart(_)
TrimStart(line) ==
  IF line # <<>> /\ line[1] = " " THEN TrimStart(Tail(line)) ELSE line

RECURSIVE TrimEnd(_)
TrimEnd(line) ==
  IF line # <<>> /\ line[Len(line)] = " "
  THEN TrimEnd(SubSeq(line, 1, Len(line) - 1)) ELSE line

\* String.prototype.trim
Trim(line) == TrimEnd(TrimStart(line))

\* line.includes(a b c) for a three-token needle
Includes3(line, a, b, c) ==
  \E k \in 1..Len(line) :
    k + 2 <= Len(line) /\ line[k] = a /\ line[k + 1] = b /\ line[k + 2] = c

\* escapeHtml on one token: & < > " are replaced by their entities.
EscapeTok(t) ==
  CASE t = "<!-- wp:"  -> "&lt;!-- wp:"
    [] t = "<!-- /wp:" -> "&lt;!-- /wp:"
    [] t = " -->"      -> " --&gt;"
    [] t = "/-->"      -> "/--&gt;"
    [] t = ">"         -> "&gt;"
    [] t = "<p>"       -> "&lt;p&gt;"
    [] t = "</p>"      -> "&lt;/p&gt;"
    [] OTHER           -> t

escapeHtml(line) == [k \in 1..Len(line) |-> EscapeTok(line[k])]

\* ------------------------------------------------------ inline formatter
RECURSIVE ReplacePairs(_, _, _, _)
\* Every leftmost pair  mark text mark  with a non-empty text becomes
\* open text close; an unmatched mark stays as literal text.
ReplacePairs(line, mark, open, close) ==
  LET opens == {k \in 1..Len(line) :
                  line[k] = mark /\ \E m \in (k + 2)..Len(line) : line[m] = mark}
  IN IF opens = {} THEN line
     ELSE LET k == CHOOSE x \in opens : \A y \in opens : x <= y
              m == CHOOSE x \in (k + 2)..Len(line) :
                     line[x] = mark /\ \A y \in (k + 2)..(x - 1) : line[y] # mark
          IN SubSeq(line, 1, k - 1) \o <<open>> \o SubSeq(line, k + 1, m - 1)
             \o <<close>>
             \o ReplacePairs(SubSeq(line, m + 1, Len(line)), mark, open, close)

RECURSIVE ReplaceLinks(_)
\* [text](url) becomes an anchor element.
ReplaceLinks(line) ==
  IF Len(line) < 5 THEN line
  ELSE IF line[1] = "[" /\ line[3] = "](" /\ line[5] = ")"
       THEN <<"<a href=\"", line[4], "\">", line[2], "</a>">>
            \o ReplaceLinks(SubSeq(line, 6, Len(line)))
       ELSE <<line[1]>> \o ReplaceLinks(Tail(line))

\* **bold**, *italic*, code spans and [text](url), each applied
\* independently; the code-span mark is spelled "~".
inlineFormat(text) ==
  ReplaceLinks(
    ReplacePairs(
      ReplacePairs(
        ReplacePairs(text, "**", "<strong>", "</strong>"),
        "*", "<em>", "</em>"),
      "~", "<code>", "</code>"))

\* ------------------------------------------------ the converter's regexes
\* /^<!-- wp:/
IsWpOpen(line) == StartsWith(line, "<!-- wp:")

\* /^<!-- \/wp:/
IsWpClose(line) == StartsWith(line, "<!-- /wp:")

\* /\/-->$/
IsSelfClosing(line) == EndsWith(line, "/-->")

\* the three-backtick fence test; the fence token is spelled "~~~"
IsFence(line) == StartsWith(line, "~~~")

\* \w+ : the tokens that are one word
WordTokens == {"sc", "tb", "a", "b", "x", "1"}

NoTag == ""

\* line.trim().match(/^\[(\w+)[\s\]]/): the tag, or NoTag without a match
ShortcodeOpenTag(line) ==
  LET t == Trim(line)
  IN IF Len(t) >= 3 /\ t[1] = "[" /\ t[2] \in WordTokens /\ t[3] \in {" ", "]"}
     THEN t[2] ELSE NoTag

\* l.trim().startsWith(`[/${tag}]`), also new RegExp(`^\\[/${tag}\\]`).test(l.trim())
StartsWithClosingTag(line, tag) ==
  LET t == Trim(line)
  IN Len(t) >= 3 /\ t[1] = "[/" /\ t[2] = tag /\ t[3] = "]"

\* lines.slice(i + 1).some(...)
HasClosing(rest, tag) ==
  \E k \in 1..Len(rest) : StartsWithClosingTag(rest[k], tag)

\* line.includes(`[/${tag}]`)
IncludesClosingTag(line, tag) == Includes3(line, "[/", tag, "]")

\* /^\|.*\|/.test(line.trim())
IsTableRow(line) ==
  LET t == Trim(line)
  IN StartsWith(t, "|") /\ \E k \in 2..Len(t) : t[k] = "|"

\* /^\|[\s\-:|]+\|$/.test(line.trim())
isTableSeparator(line) ==
  LET t == Trim(line)
  IN /\ Len(t) >= 3
     /\ t[1] = "|"
     /\ t[Len(t)] = "|"
     /\ \A k \in 2..(Len(t) - 1) : t[k] \in {" ", "-", ":", "|"}

RECURSIVE SplitOn(_, _)
\* String.prototype.split(sep)
SplitOn(line, sep) ==
  IF \A k \in 1..Len(line) : line[k] # sep THEN <<line>>
  ELSE LET k == CHOOSE x \in 1..Len(line) :
                  line[x] = sep /\ \A y \in 1..(x - 1) : line[y] # sep
       IN <<SubSeq(line, 1, k - 1)>> \o SplitOn(SubSeq(line, k + 1, Len(line)), sep)

\* Split "| A | B |" into ["A", "B"]
parseTableRow(line) ==
  LET a == IF StartsWith(line, "|") THEN Tail(line) ELSE line
      b == IF EndsWith(a, "|") THEN SubSeq(a, 1, Len(a) - 1) ELSE a
      cells == SplitOn(b, "|")
  IN [k \in 1..Len(cells) |-> Trim(cells[k])]

\* line.match(/^>\s?(.*)/)
IsBlockquote(line) == StartsWith(line, ">")

BlockquoteText(line) ==
  IF Len(line) >= 2 /\ line[2] = " " THEN SubSeq(line, 3, Len(line)) ELSE Tail(line)

\* line.trim() === ""
IsBlank(line) == Trim(line) = <<>>

\* /^#\s+/
IsH1(line) == Len(line) >= 2 /\ line[1] = "#" /\ line[2] = " "

\* the hash runs #{2,6}, one token each, and their lengths
HashLevel(tok) ==
  CASE tok = "##" -> 2 [] tok = "###" -> 3 [] tok = "####" -> 4
    [] tok = "#####" -> 5 [] tok = "######" -> 6 [] OTHER -> 0

\* line.match(/^(#{2,6})\s+(.*)/)
IsHeading(line) == Len(line) >= 2 /\ HashLevel(line[1]) >= 2 /\ line[2] = " "

HeadingText(line) == TrimStart(Tail(line))

\* text.match(/\s*\{\.([^}]+)\}\s*$/)
HasClassSuffix(text) ==
  LET t == TrimEnd(text)
  IN Len(t) >= 3 /\ t[Len(t)] = "}" /\ t[Len(t) - 2] = "{." /\ t[Len(t) - 1] # "}"

ClassName(text) == LET t == TrimEnd(text) IN t[Len(t) - 1]

\* text.replace(/\s*\{\.([^}]+)\}\s*$/, "").trim()
StripClassSuffix(text) ==
  LET t == TrimEnd(text) IN Trim(SubSeq(t, 1, Len(t) - 3))

\* line.match(/^!\[([^\]]*)\]\(([^)]+)\)/), alt and src being one token each
IsImage(line) ==
  Len(line) >= 5 /\ line[1] = "![" /\ line[3] = "](" /\ line[5] = ")"

\* line.match(/^[-*]\s+(.*)/)
IsUl(line) == Len(line) >= 2 /\ line[1] \in {"-", "*"} /\ line[2] = " "

UlText(line) == TrimStart(Tail(line))

\* line.match(/^\d+\.\s+(.*)/)
IsOl(line) ==
  Len(line) >= 3 /\ line[1] \in {"1", "2"} /\ line[2] = "." /\ line[3] = " "

OlText(line) == TrimStart(Tail(Tail(line)))

\* ------------------------------------------- markdownToGutenberg: state
\* The local state of one markdownToGutenberg call, as a record: the
\* operators below are the loop body on that record, and the actions apply
\* them to the variables of the same names.
InitState ==
  [inCode |-> FALSE, codeLines |-> <<>>,
   inList |-> FALSE, listOrdered |-> FALSE, listItems |-> <<>>,
   inTable |-> FALSE, tableHeaderRow |-> <<>>, tableDataRows |-> <<>>,
   inGutenbergBlock |-> 0, gutenbergLines |-> <<>>,
   inShortcode |-> FALSE, shortcodeTag |-> NoTag, shortcodeLines |-> <<>>,
   inBlockquote |-> FALSE, blockquoteLines |-> <<>>,
   output |-> <<>>]

\* output.push(a, b, ...)
Push(s, ls) == [s EXCEPT !.output = @ \o ls]

\* One output element holding  prefix + ls.join("\n") + suffix, as the
\* lines it spells.
EmbedLines(prefix, ls, suffix) ==
  IF ls = <<>> THEN <<prefix \o suffix>>
  ELSE IF Len(ls) = 1 THEN <<prefix \o ls[1] \o suffix>>
  ELSE <<prefix \o ls[1]>> \o SubSeq(ls, 2, Len(ls) - 1)
       \o <<ls[Len(ls)] \o suffix>>

ListItemHtml(item) ==
  <<"<!-- wp:", "list-item", " -->", "<li>">> \o inlineFormat(item)
  \o <<"</li>", "<!-- /wp:", "list-item", " -->">>

ListFragment(ordered, items) ==
  << <<"<!-- wp:", "list">>
       \o (IF ordered THEN <<" ", "{\"ordered\":true}">> ELSE <<>>) \o <<" -->">>,
     <<IF ordered THEN "<ol>" ELSE "<ul>">>
       \o Concat([k \in 1..Len(items) |-> ListItemHtml(items[k])])
       \o <<IF ordered THEN "</ol>" ELSE "</ul>">>,
     <<"<!-- /wp:", "list", " -->">>,
     <<>> >>

flushList(s) ==
  IF ~s.inList THEN s
  ELSE [Push(s, ListFragment(s.listOrdered, s.listItems))
          EXCEPT !.inList = FALSE, !.listItems = <<>>]

TableCells(row, open, close) ==
  Concat([k \in 1..Len(row) |-> <<open>> \o inlineFormat(Trim(row[k])) \o <<close>>])

TableFragment(header, rows) ==
  << <<"<!-- wp:", "table", " -->">>,
     <<"<figure class=\"wp-block-table\"><table>", "<thead>", "<tr>">>
       \o TableCells(header, "<th>", "</th>")
       \o <<"</tr>", "</thead>", "<tbody>">>
       \o Concat([k \in 1..Len(rows) |->
                    <<"<tr>">> \o TableCells(rows[k], "<td>", "</td>") \o <<"</tr>">>])
       \o <<"</tbody>", "</table></figure>">>,
     <<"<!-- /wp:", "table", " -->">>,
     <<>> >>

flushTable(s) ==
  IF ~s.inTable THEN s
  ELSE [Push(s, TableFragment(s.tableHeaderRow, s.tableDataRows))
          EXCEPT !.inTable = FALSE, !.tableHeaderRow = <<>>, !.tableDataRows = <<>>]

QuoteFragment(qlines) ==
  << <<"<!-- wp:", "quote", " -->">>,
     <<"<blockquote class=\"wp-block-quote\">", "<p>">>
       \o JoinWith([k \in 1..Len(qlines) |-> inlineFormat(qlines[k])], "<br>")
       \o <<"</p>", "</blockquote>">>,
     <<"<!-- /wp:", "quote", " -->">>,
     <<>> >>

flushBlockquote(s) ==
  IF ~s.inBlockquote THEN s
  ELSE [Push(s, QuoteFragment(s.blockquoteLines))
          EXCEPT !.inBlockquote = FALSE, !.blockquoteLines = <<>>]

\* Mutant: flushAll without flushTable.
flushAll_NoTable(s) == flushList(flushBlockquote(s))

flushAll(s) == flushTable(flushList(flushBlockquote(s)))

\* --------------------------------------- markdownToGutenberg: loop body
\* PassthroughStep with the region emitted before its closing line is buffered.
PassthroughStep_EmitBeforePush(s, line) ==
  LET buf == Append(s.gutenbergLines, line)
      d1  == IF IsWpOpen(line) /\ ~IsWpClose(line) /\ ~IsSelfClosing(line)
             THEN s.inGutenbergBlock + 1 ELSE s.inGutenbergBlock
      d2  == IF IsWpClose(line) THEN d1 - 1 ELSE d1
  IN IF IsWpClose(line) /\ d2 = 0
     THEN [Push(s, s.gutenbergLines)
             EXCEPT !.inGutenbergBlock = 0, !.gutenbergLines = <<>>]
     ELSE [s EXCEPT !.inGutenbergBlock = d2, !.gutenbergLines = buf]

\* PassthroughStep with the buffered line run through the inline formatter.
PassthroughStep_Formats(s, line) ==
  LET buf == Append(s.gutenbergLines, inlineFormat(line))
      d1  == IF IsWpOpen(line) /\ ~IsWpClose(line) /\ ~IsSelfClosing(line)
             THEN s.inGutenbergBlock + 1 ELSE s.inGutenbergBlock
      d2  == IF IsWpClose(line) THEN d1 - 1 ELSE d1
  IN IF IsWpClose(line) /\ d2 = 0
     THEN [Push(s, buf) EXCEPT !.inGutenbergBlock = 0, !.gutenbergLines = <<>>]
     ELSE [s EXCEPT !.inGutenbergBlock = d2, !.gutenbergLines = buf]

\* PassthroughStep that does not count the opens inside the region.
PassthroughStep_IgnoresNested(s, line) ==
  LET buf == Append(s.gutenbergLines, line)
      d2  == IF IsWpClose(line) THEN s.inGutenbergBlock - 1 ELSE s.inGutenbergBlock
  IN IF IsWpClose(line) /\ d2 = 0
     THEN [Push(s, buf) EXCEPT !.inGutenbergBlock = 0, !.gutenbergLines = <<>>]
     ELSE [s EXCEPT !.inGutenbergBlock = d2, !.gutenbergLines = buf]

\* inGutenbergBlock > 0: buffer the line and track the nesting depth.
PassthroughStep(s, line) ==
  LET buf == Append(s.gutenbergLines, line)
      d1  == IF IsWpOpen(line) /\ ~IsWpClose(line) /\ ~IsSelfClosing(line)
             THEN s.inGutenbergBlock + 1 ELSE s.inGutenbergBlock
      d2  == IF IsWpClose(line) THEN d1 - 1 ELSE d1
  IN IF IsWpClose(line) /\ d2 = 0
     THEN [Push(s, buf) EXCEPT !.inGutenbergBlock = 0, !.gutenbergLines = <<>>]
     ELSE [s EXCEPT !.inGutenbergBlock = d2, !.gutenbergLines = buf]

\* A "<!-- wp:" line outside a passthrough region.
WpOpenStep(s, line) ==
  IF IsSelfClosing(line)
  THEN Push(flushAll(s), <<line, <<>>>>)
  ELSE [flushAll(s) EXCEPT !.inGutenbergBlock = 1, !.gutenbergLines = <<line>>]

CodeFragment(codeLines) ==
  <<<<"<!-- wp:", "code", " -->">>>>
  \o EmbedLines(<<"<pre class=\"wp-block-code\">", "<code>">>,
                [k \in 1..Len(codeLines) |-> escapeHtml(codeLines[k])],
                <<"</code>", "</pre>">>)
  \o << <<"<!-- /wp:", "code", " -->">>, <<>> >>

\* A fence line toggles code mode.
FenceStep(s) ==
  IF ~s.inCode
  THEN [flushAll(s) EXCEPT !.inCode = TRUE, !.codeLines = <<>>]
  ELSE [Push(s, CodeFragment(s.codeLines)) EXCEPT !.inCode = FALSE]

\* inCode: codeLines.push(line)
CodeLineStep(s, line) == [s EXCEPT !.codeLines = Append(@, line)]

ShortcodeFragment(sclines) ==
  <<<<"<!-- wp:", "shortcode", " -->">>>> \o sclines
  \o << <<"<!-- /wp:", "shortcode", " -->">>, <<>> >>

\* inShortcode: buffer the line, emit at the closing tag.
ShortcodeLineStep(s, line) ==
  LET buf == Append(s.shortcodeLines, line)
  IN IF StartsWithClosingTag(line, s.shortcodeTag)
     THEN [Push(s, ShortcodeFragment(buf))
             EXCEPT !.inShortcode = FALSE, !.shortcodeTag = NoTag,
                    !.shortcodeLines = <<>>]
     ELSE [s EXCEPT !.shortcodeLines = buf]

\* An opening shortcode whose closing tag is on a later line.
ShortcodeOpenStep(s, line, tag) ==
  [flushAll(s) EXCEPT !.inShortcode = TRUE, !.shortcodeTag = tag,
                      !.shortcodeLines = <<line>>]

\* An opening shortcode whose closing tag is on the same line.
ShortcodeInlineStep(s, line) == Push(flushAll(s), ShortcodeFragment(<<line>>))

LevelTok(n) ==
  CASE n = 2 -> "2" [] n = 3 -> "3" [] n = 4 -> "4" [] n = 5 -> "5" [] OTHER -> "6"

HeadingFragment(level, className, text) ==
  LET hasLevel == level > 2
      hasClass == className # ""
      attrsStr == IF ~hasLevel /\ ~hasClass THEN <<>>
                  ELSE <<" ", "{">>
                       \o (IF hasLevel THEN <<"\"level\":", LevelTok(level)>> ELSE <<>>)
                       \o (IF hasLevel /\ hasClass THEN <<",">> ELSE <<>>)
                       \o (IF hasClass THEN <<"\"className\":\"", className, "\"">> ELSE <<>>)
                       \o <<"}">>
      classAttr == IF hasClass THEN <<"wp-block-heading", " ", className>>
                   ELSE <<"wp-block-heading">>
  IN << <<"<!-- wp:", "heading">> \o attrsStr \o <<" -->">>,
        <<"<h", LevelTok(level), " class=\"">> \o classAttr \o <<"\">">>
          \o inlineFormat(text) \o <<"</h", LevelTok(level), ">">>,
        <<"<!-- /wp:", "heading", " -->">>,
        <<>> >>

\* Mutant: the class is parsed but the suffix stays in the text.
HeadingStep_KeepsSuffix(s, line) ==
  LET level == HashLevel(line[1])
      text0 == HeadingText(line)
      hasC  == HasClassSuffix(text0)
      cls   == IF hasC THEN ClassName(text0) ELSE ""
  IN Push(flushAll(s), HeadingFragment(level, cls, text0))

HeadingStep(s, line) ==
  LET level == HashLevel(line[1])
      text0 == HeadingText(line)
      hasC  == HasClassSuffix(text0)
      cls   == IF hasC THEN ClassName(text0) ELSE ""
      text  == IF hasC THEN StripClassSuffix(text0) ELSE text0
  IN Push(flushAll(s), HeadingFragment(level, cls, text))

ImageStep(s, line) ==
  Push(flushAll(s),
       << <<"<!-- wp:", "image", " ", "{\"sizeSlug\":\"large\"}", " -->">>,
          <<"<figure class=\"wp-block-image size-large\">", "<img src=\"">>
            \o escapeHtml(<<line[4]>>) \o <<"\" alt=\"">>
            \o escapeHtml(<<line[2]>>) \o <<"\"/>", "</figure>">>,
          <<"<!-- /wp:", "image", " -->">>,
          <<>> >>)

\* ListItemStep without the flush when the kind changes.
ListItemStep_NoSwitchFlush(s, ordered, item) ==
  LET s2 == IF ~s.inList
            THEN [s EXCEPT !.inList = TRUE, !.listOrdered = ordered, !.listItems = <<>>]
            ELSE s
  IN [s2 EXCEPT !.listItems = Append(@, item)]

\* A list item of the given kind: a list of the other kind is flushed first.
ListItemStep(s, ordered, item) ==
  LET s1 == IF s.inList /\ s.listOrdered # ordered THEN flushList(s) ELSE s
      s2 == IF ~s1.inList
            THEN [s1 EXCEPT !.inList = TRUE, !.listOrdered = ordered, !.listItems = <<>>]
            ELSE s1
  IN [s2 EXCEPT !.listItems = Append(@, item)]

ParagraphStep(s, line) ==
  Push(flushList(s),
       << <<"<!-- wp:", "paragraph", " -->">>,
          <<"<p>">> \o inlineFormat(line) \o <<"</p>">>,
          <<"<!-- /wp:", "paragraph", " -->">>,
          <<>> >>)

\* Blank line, H1, heading, image, list item, paragraph.
RestStage(s, line) ==
  IF IsBlank(line) THEN flushList(s)
  ELSE IF IsH1(line) THEN flushAll(s)
  ELSE IF IsHeading(line) THEN HeadingStep(s, line)
  ELSE IF IsImage(line) THEN ImageStep(s, line)
  ELSE IF IsUl(line) THEN ListItemStep(s, FALSE, UlText(line))
  ELSE IF IsOl(line) THEN ListItemStep(s, TRUE, OlText(line))
  ELSE ParagraphStep(s, line)

\* BlockquoteStage without the flush of an open list at the first quote line.
BlockquoteStage_KeepsList(s, line) ==
  IF IsBlockquote(line)
  THEN [s EXCEPT !.inBlockquote = TRUE,
                 !.blockquoteLines = Append(@, BlockquoteText(line))]
  ELSE RestStage(flushBlockquote(s), line)

\* Blockquote line, or the end of an open blockquote.
BlockquoteStage(s, line) ==
  IF IsBlockquote(line)
  THEN LET s1 == IF ~s.inBlockquote THEN flushList(s) ELSE s
       IN [s1 EXCEPT !.inBlockquote = TRUE,
                     !.blockquoteLines = Append(@, BlockquoteText(line))]
  ELSE RestStage(flushBlockquote(s), line)

\* TableStage without the flush of an open table at a non-pipe line.
TableStage_NoFlushOnNonPipe(s, line) ==
  IF IsTableRow(line)
  THEN IF ~s.inTable
       THEN [flushAll(s) EXCEPT !.inTable = TRUE,
                                !.tableHeaderRow = parseTableRow(line),
                                !.tableDataRows = <<>>]
       ELSE IF isTableSeparator(line) THEN s
       ELSE [s EXCEPT !.tableDataRows = Append(@, parseTableRow(line))]
  ELSE BlockquoteStage(s, line)

\* TableStage without the separator test: a separator row becomes a body row.
TableStage_KeepsSeparator(s, line) ==
  IF IsTableRow(line)
  THEN IF ~s.inTable
       THEN [flushAll(s) EXCEPT !.inTable = TRUE,
                                !.tableHeaderRow = parseTableRow(line),
                                !.tableDataRows = <<>>]
       ELSE [s EXCEPT !.tableDataRows = Append(@, parseTableRow(line))]
  ELSE BlockquoteStage(flushTable(s), line)

\* Table row, or the end of an open table.
TableStage(s, line) ==
  IF IsTableRow(line)
  THEN IF ~s.inTable
       THEN [flushAll(s) EXCEPT !.inTable = TRUE,
                                !.tableHeaderRow = parseTableRow(line),
                                !.tableDataRows = <<>>]
       ELSE IF isTableSeparator(line) THEN s
       ELSE [s EXCEPT !.tableDataRows = Append(@, parseTableRow(line))]
  ELSE BlockquoteStage(flushTable(s), line)

\* Mutant: an opening tag enters shortcode mode without looking for the
\* closing tag.
ShortcodeStage_OpensUnclosed(s, line, rest) ==
  IF s.inShortcode THEN ShortcodeLineStep(s, line)
  ELSE LET tag == ShortcodeOpenTag(line)
       IN IF tag # NoTag THEN ShortcodeOpenStep(s, line, tag)
          ELSE TableStage(s, line)

\* Shortcode buffering and detection; rest is lines.slice(i + 1).
ShortcodeStage(s, line, rest) ==
  IF s.inShortcode THEN ShortcodeLineStep(s, line)
  ELSE LET tag == ShortcodeOpenTag(line)
       IN IF tag # NoTag /\ HasClosing(rest, tag) THEN ShortcodeOpenStep(s, line, tag)
          ELSE IF tag # NoTag /\ IncludesClosingTag(line, tag)
               THEN ShortcodeInlineStep(s, line)
          ELSE TableStage(s, line)

\* One iteration of the for loop over lines.
Step(s, line, rest) ==
  IF s.inGutenbergBlock > 0 THEN PassthroughStep(s, line)
  ELSE IF IsWpOpen(line) THEN WpOpenStep(s, line)
  ELSE IF IsFence(line) THEN FenceStep(s)
  ELSE IF s.inCode THEN CodeLineStep(s, line)
  ELSE ShortcodeStage(s, line, rest)

RECURSIVE StripTrailingBlank(_)
StripTrailingBlank(ls) ==
  IF ls # <<>> /\ ls[Len(ls)] = <<>>
  THEN StripTrailingBlank(SubSeq(ls, 1, Len(ls) - 1)) ELSE ls

\* output.join("\n").replace(/\n+$/, ""), as the lines it splits into
ResultLines(out) ==
  LET r == StripTrailingBlank(out) IN IF r = <<>> THEN <<<<>>>> ELSE r

RECURSIVE RunLoop(_, _, _)
RunLoop(s, ls, k) ==
  IF k > Len(ls) THEN s
  ELSE RunLoop(Step(s, ls[k], SubSeq(ls, k + 1, Len(ls))), ls, k + 1)

\* The whole function, on the lines input.split("\n") gives.
markdownToGutenberg(ls) == ResultLines(flushAll(RunLoop(InitState, ls, 1)).output)

\* ===================================================== enhanceHints
\* line.includes(tok)
Has(line, tok) == \E k \in 1..Len(line) : line[k] = tok

\* line.includes(a b) for two adjacent tokens
HasPair(line, a, b) ==
  \E k \in 1..Len(line) : k + 1 <= Len(line) /\ line[k] = a /\ line[k + 1] = b

\* line.includes(tok + " "): the marker followed by a space, which is the
\* token " " or the first character of the token " -->"
HasThenSpace(line, tok) == HasPair(line, tok, " ") \/ HasPair(line, tok, " -->")

\* The text  key="  as one token.
KeyTok(key) ==
  CASE key = "url" -> "url=\"" [] key = "text" -> "text=\""
    [] key = "sponsored" -> "sponsored=\"" [] key = "title" -> "title=\""
    [] key = "columns" -> "columns=\"" [] key = "id" -> "id=\""
    [] OTHER -> "name=\""

\* line.match(new RegExp(`${key}="([^"]*)"`)): the value of the first
\* key="..." of the line, or "" without a match.
parseAttr(line, key) ==
  LET starts == {k \in 1..Len(line) :
                   line[k] = KeyTok(key) /\ \E m \in (k + 1)..Len(line) : line[m] = "\""}
  IN IF starts = {} THEN <<>>
     ELSE LET k == CHOOSE x \in starts : \A y \in starts : x <= y
              m == CHOOSE x \in (k + 1)..Len(line) :
                     line[x] = "\"" /\ \A y \in (k + 1)..(x - 1) : line[y] # "\""
          IN SubSeq(line, k + 1, m - 1)

\* replace(/"/g, '\\"') on one token
EscQuoteTok(t) ==
  CASE t = "\"" -> "\\\""
    [] t = "url=\"" -> "url=\\\"" [] t = "text=\"" -> "text=\\\""
    [] t = "sponsored=\"" -> "sponsored=\\\"" [] t = "title=\"" -> "title=\\\""
    [] t = "columns=\"" -> "columns=\\\"" [] t = "id=\"" -> "id=\\\""
    [] t = "name=\"" -> "name=\\\""
    [] OTHER -> t

EscQuotes(text) == [k \in 1..Len(text) |-> EscQuoteTok(text[k])]

\* lines.filter((l) => l.trim()).map((l) => l.trim())
NonBlankTrimmed(ls) ==
  LET nb == SelectSeq(ls, LAMBDA l : Trim(l) # <<>>)
  IN [k \in 1..Len(nb) |-> Trim(nb[k])]

\* generateUniqueId(): one of the tokens it can return.
Uids == {"u1", "u2"}

genClickToTweet(ls) ==
  LET nb    == NonBlankTrimmed(ls)
      tweet == IF nb = <<>> THEN <<>> ELSE nb[1]
  IN << <<"<!-- wp:", "bctt/clicktotweet", " ", "{\"tweet\":\"">> \o EscQuotes(tweet)
          \o <<"\"}", " ", "/-->">> >>

genProTip(ls) ==
  LET text == JoinWith(NonBlankTrimmed(ls), " ")
  IN << <<"<!-- wp:", "generateblocks/container", " ", "{\"uniqueId\":\"8766bab4\"}", " -->">>,
        <<"<!-- wp:", "generateblocks/container", " ", "{\"uniqueId\":\"d43560c2\"}", " -->">>,
        <<"<!-- wp:", "generateblocks/headline", " ", "{\"uniqueId\":\"c1e5fdf3\"}", " -->">>,
        <<"<p class=\"gb-headline gb-headline-c1e5fdf3 pro-tip-text\">",
          "<span class=\"gb-icon\">", "LIGHTBULB_SVG", "</span>",
          "<span class=\"gb-headline-text\">", "<strong>", "Pro Tip:", "</strong>", " ">>
          \o text \o <<"</span>", "</p>">>,
        <<"<!-- /wp:", "generateblocks/headline", " -->">>,
        <<"<!-- /wp:", "generateblocks/container", " -->">>,
        <<"<!-- /wp:", "generateblocks/container", " -->">> >>

\* ids: the results of the two generateUniqueId calls, in call order
genDiscount(ls, ids) ==
  LET text == JoinWith(NonBlankTrimmed(ls), " ")
  IN << <<"<!-- wp:", "generateblocks/container", " ", "{\"uniqueId\":\"", ids[1],
          "\",\"className\":\"discount-container\"}", " -->">>,
        <<"<!-- wp:", "generateblocks/headline", " ", "{\"uniqueId\":\"", ids[2],
          "\",\"globalClasses\":[\"discount-code-headline-text\"]}", " -->">>,
        <<"<p class=\"gb-headline gb-headline-", ids[2], " discount-code-headline-text\">",
          "<span class=\"gb-icon\">", "FIRE_SVG", "</span>",
          "<span class=\"gb-headline-text\">">> \o text \o <<"</span>", "</p>">>,
        <<"<!-- /wp:", "generateblocks/headline", " -->">>,
        <<"<!-- /wp:", "generateblocks/container", " -->">> >>

\* ids: the results of the two generateUniqueId calls, in call order
genCta(attrs, ids) ==
  LET url       == parseAttr(attrs, "url")
      text      == parseAttr(attrs, "text")
      sponsored == parseAttr(attrs, "sponsored") = <<"true">>
  IN << <<"<!-- wp:", "generateblocks/container", " ", "{\"uniqueId\":\"", ids[1],
          "\",\"metadata\":{\"name\":\"CTA Button Container\"}}", " -->">>,
        <<"<!-- wp:", "generateblocks/button", " ", "{\"uniqueId\":\"", ids[2],
          "\",\"hasUrl\":true">>
          \o (IF sponsored THEN <<",\"relSponsored\":true">> ELSE <<>>)
          \o <<"}", " -->">>,
        <<"<a class=\"gb-button gb-button-", ids[2], " btn-primary-outline btn-outline\"",
          " href=\"">> \o url \o <<"\"">>
          \o (IF sponsored THEN <<" rel=\"sponsored\"">> ELSE <<>>)
          \o <<">", "<span class=\"gb-button-text\">">> \o text
          \o <<"</span>", "<span class=\"gb-icon\">", "ARROW_SVG", "</span>", "</a>">>,
        <<"<!-- /wp:", "generateblocks/button", " -->">>,
        <<"<!-- /wp:", "generateblocks/container", " -->">> >>

genDataLab(title, columns, rows) ==
  LET rowData == JoinWith(SelectSeq(rows, LAMBDA l : Trim(l) # <<>>), "\\n")
  IN << <<"<!-- wp:", "outliyr/data-lab", " ", "{\"builderTitle\":\"">> \o EscQuotes(title)
          \o <<"\",\"builderColumnsText\":\"">> \o EscQuotes(columns)
          \o <<"\",\"builderRowsText\":\"">> \o EscQuotes(rowData)
          \o <<"\"}", " ", "/-->">> >>

\* Mutant: flushPair keeps a question that has no answer.
FlushPair_KeepsUnanswered(pairs, currentQ, currentA) ==
  IF currentQ # <<>>
  THEN Append(pairs, [q |-> currentQ, a |-> JoinWith(currentA, " ")])
  ELSE pairs

\* flushPair(): the pairs after the current question and answer are closed
FlushPair(pairs, currentQ, currentA) ==
  IF currentQ # <<>> /\ currentA # <<>>
  THEN Append(pairs, [q |-> currentQ, a |-> JoinWith(currentA, " ")])
  ELSE pairs

\* trimmed.match(/^##\s+(.+?)(\?)?$/)
IsFaqHeading(t) == Len(t) >= 3 /\ t[1] = "##" /\ t[2] = " "

\* h2Match[1] + (h2Match[2] || "?")
FaqHeadingQuestion(t) ==
  LET rest == TrimStart(SubSeq(t, 3, Len(t)))
  IN IF Len(rest) >= 2 /\ rest[Len(rest)] = "?" THEN rest ELSE rest \o <<"?">>

\* trimmed.match(/^\*\*Q:\s*(.+?)\*\*$/)
IsFaqBoldQuestion(t) == Len(t) >= 3 /\ t[1] = "**Q:" /\ t[Len(t)] = "**"

FaqBoldQuestion(t) ==
  LET mid == SubSeq(t, 2, Len(t) - 1)
  IN IF TrimStart(mid) = <<>> THEN mid ELSE TrimStart(mid)

\* trimmed.match(/^\*\*A:\*\*\s*(.+)$/)
IsFaqBoldAnswer(t) == Len(t) >= 2 /\ t[1] = "**A:**"

FaqBoldAnswer(t) == TrimStart(SubSeq(t, 2, Len(t)))

\* The for loop of genFaq and the flushPair call after it.
RECURSIVE FaqPairs(_, _, _, _)
FaqPairs(ls, pairs, currentQ, currentA) ==
  IF ls = <<>> THEN FlushPair(pairs, currentQ, currentA)
  ELSE LET trimmed == Trim(Head(ls))
           rest    == Tail(ls)
       IN CASE trimmed = <<>> -> FaqPairs(rest, pairs, currentQ, currentA)
            [] trimmed # <<>> /\ IsFaqHeading(trimmed) ->
                 FaqPairs(rest, FlushPair(pairs, currentQ, currentA),
                          FaqHeadingQuestion(trimmed), <<>>)
            [] trimmed # <<>> /\ ~IsFaqHeading(trimmed) /\ IsFaqBoldQuestion(trimmed) ->
                 FaqPairs(rest, FlushPair(pairs, currentQ, currentA),
                          FaqBoldQuestion(trimmed), <<>>)
            [] OTHER ->
                 IF IsFaqBoldAnswer(trimmed) /\ currentQ # <<>>
                 THEN FaqPairs(rest, pairs, currentQ,
                               Append(currentA, FaqBoldAnswer(trimmed)))
                 ELSE IF currentQ # <<>>
                 THEN FaqPairs(rest, pairs, currentQ, Append(currentA, trimmed))
                 ELSE FaqPairs(rest, pairs, currentQ, currentA)

\* JSON.stringify(questions); ids holds two generateUniqueId results per pair
QuestionsJson(pairs, ids) ==
  <<"[">> \o
  Concat([k \in 1..Len(pairs) |->
            (IF k > 1 THEN <<",">> ELSE <<>>)
            \o <<"{\"id\":\"faq-question-", ids[2 * k - 1], ids[2 * k], "\",\"title\":\"">>
            \o EscQuotes(pairs[k].q) \o <<"\",\"content\":\"">>
            \o EscQuotes(pairs[k].a) \o <<"\",\"visible\":true}">>])
  \o <<"]">>

FaqItemHtml(p) ==
  <<"<div class=\"rank-math-faq-item\">", "<h3 class=\"rank-math-question\">">> \o p.q
    \o <<"</h3>", "<div class=\"rank-math-answer\">">> \o p.a \o <<"</div>", "</div>">>

\* ids: the results of the generateUniqueId calls, in call order
genFaq(ls, ids) ==
  LET pairs == FaqPairs(ls, <<>>, <<>>, <<>>)
      items == IF pairs = <<>> THEN << <<>> >>
               ELSE [k \in 1..Len(pairs) |-> FaqItemHtml(pairs[k])]
  IN << <<"<!-- wp:", "rank-math/faq-block", " ", "{\"questions\":">>
          \o QuestionsJson(pairs, ids) \o <<"}", " -->">>,
        <<"<div class=\"wp-block-rank-math-faq-block\">">> >>
     \o items
     \o << <<"</div>">>, <<"<!-- /wp:", "rank-math/faq-block", " -->">> >>

\* The number of generateUniqueId calls genFaq makes on ls
FaqIdCount(ls) == 2 * Len(FaqPairs(ls, <<>>, <<>>, <<>>))

KEY_TAKEAWAY_HEADLINE_IDS ==
  <<"60005305", "426bc5ac", "b74b277c", "2e7c9b3f",
    "be20854d", "a3f7e821", "c94d5b16", "f1e08a3c">>

\* lines.map(trim).filter(startsWith("- ")).map(slice(2).trim())
BulletItems(ls) ==
  LET trimmed == [k \in 1..Len(ls) |-> Trim(ls[k])]
      bullets == SelectSeq(trimmed, LAMBDA l : Len(l) >= 2 /\ l[1] = "-" /\ l[2] = " ")
  IN [k \in 1..Len(bullets) |-> Trim(SubSeq(bullets[k], 3, Len(bullets[k])))]

\* Mutant: the rotation starts at the second entry of the pool.
KeyTakeawayUid_StartsAtSecond(k) ==
  KEY_TAKEAWAY_HEADLINE_IDS[(k % Len(KEY_TAKEAWAY_HEADLINE_IDS)) + 1]

\* KEY_TAKEAWAY_HEADLINE_IDS[i % KEY_TAKEAWAY_HEADLINE_IDS.length], i from 0
KeyTakeawayUid(k) == KEY_TAKEAWAY_HEADLINE_IDS[((k - 1) % Len(KEY_TAKEAWAY_HEADLINE_IDS)) + 1]

KeyTakeawayItem(item, k) ==
  << <<"<!-- wp:", "generateblocks/headline", " ", "{\"uniqueId\":\"", KeyTakeawayUid(k),
       "\",\"globalClasses\":[\"key-takeaways-item\"]}", " -->">>,
     <<"<p class=\"gb-headline gb-headline-", KeyTakeawayUid(k), " key-takeaways-item\">",
       "<span class=\"gb-icon\">", "DNA", "</span>",
       "<span class=\"gb-headline-text\">">> \o item \o <<"</span>", "</p>">>,
     <<"<!-- /wp:", "generateblocks/headline", " -->">> >>

genKeyTakeaways(ls) ==
  LET items      == BulletItems(ls)
      itemBlocks == IF items = <<>> THEN << <<>> >>
                    ELSE Concat([k \in 1..Len(items) |->
                                   (IF k > 1 THEN << <<>> >> ELSE <<>>)
                                   \o KeyTakeawayItem(items[k], k)])
  IN << <<"<!-- wp:", "generateblocks/container", " ", "{\"uniqueId\":\"ca82a9de\"}", " -->">>,
        <<"<!-- wp:", "generateblocks/container", " ", "{\"uniqueId\":\"484d6c67\"}", " -->">>,
        <<"<!-- wp:", "generateblocks/button", " ", "{\"uniqueId\":\"9988d281\"}", " -->">>,
        <<"<button class=\"gb-button gb-button-9988d281\">", "Key Takeaways", "</button>">>,
        <<"<!-- /wp:", "generateblocks/button", " -->">>,
        <<>>,
        <<"<!-- wp:", "generateblocks/container", " ", "{\"uniqueId\":\"5c86dbb2\"}", " -->">> >>
     \o itemBlocks
     \o << <<"<!-- /wp:", "generateblocks/container", " -->">>,
           <<"<!-- /wp:", "generateblocks/container", " -->">>,
           <<"<!-- /wp:", "generateblocks/container", " -->">> >>

\* ids: the results of the four generateUniqueId calls, in call order
genStatsAccordion(ls, ids) ==
  LET items     == BulletItems(ls)
      listItems_ == Concat([k \in 1..Len(items) |->
                             <<"<!-- wp:", "list-item", " -->", "<li>">> \o items[k]
                               \o <<"</li>", "<!-- /wp:", "list-item", " -->">>])
  IN << <<"<!-- wp:", "generateblocks/container", " ", "{\"uniqueId\":\"", ids[1],
          "\",\"variantRole\":\"accordion\"}", " -->">>,
        <<"<!-- wp:", "generateblocks/container", " ", "{\"uniqueId\":\"", ids[2],
          "\",\"variantRole\":\"accordion-item\"}", " -->">>,
        <<"<!-- wp:", "generateblocks/button", " ", "{\"uniqueId\":\"", ids[3],
          "\",\"variantRole\":\"accordion-toggle\"}", " -->">>,
        <<"<button class=\"gb-button gb-button-", ids[3], " accordion-outline-title\">",
          "Product Stats", "</button>">>,
        <<"<!-- /wp:", "generateblocks/button", " -->">>,
        <<"<!-- wp:", "generateblocks/container", " ", "{\"uniqueId\":\"", ids[4],
          "\",\"variantRole\":\"accordion-content\"}", " -->">>,
        <<"<!-- wp:", "list", " -->">>,
        <<"<ul class=\"wp-block-list\">">> \o listItems_ \o <<"</ul>">>,
        <<"<!-- /wp:", "list", " -->">>,
        <<"<!-- /wp:", "generateblocks/container", " -->">>,
        <<"<!-- /wp:", "generateblocks/container", " -->">>,
        <<"<!-- /wp:", "generateblocks/container", " -->">> >>

\* The positions k where line holds the marker  open -->  , some text, and
\* then  close -->  : line.match(/open -->(.+?)close -->/)
InlineStarts(line, open, close) ==
  {k \in 1..Len(line) :
     /\ k + 1 <= Len(line) /\ line[k] = open /\ line[k + 1] = " -->"
     /\ \E m \in (k + 3)..Len(line) :
          m + 1 <= Len(line) /\ line[m] = close /\ line[m + 1] = " -->"}

HasInline(line, open, close) == InlineStarts(line, open, close) # {}

\* match[1].trim(): the text between the leftmost opening marker that has a
\* closing marker after it and the nearest such closing marker
InlineText(line, open, close) ==
  LET st == InlineStarts(line, open, close)
      k  == CHOOSE x \in st : \A y \in st : x <= y
      ms == {m \in (k + 3)..Len(line) :
               m + 1 <= Len(line) /\ line[m] = close /\ line[m + 1] = " -->"}
      m  == CHOOSE x \in ms : \A y \in ms : x <= y
  IN Trim(SubSeq(line, k + 2, m - 1))

\* The locals of genProductRoundup before its for loop.
ProductInit ==
  [inSub |-> "", accolade |-> <<>>, imageUrl |-> <<>>, statsBuf |-> <<>>,
   ctaLine |-> <<>>, discountBuf |-> <<>>]

\* One iteration of the for loop of genProductRoundup.
ProductLine(p, line) ==
  CASE HasInline(line, "<!-- @accolade", "<!-- @end-accolade") ->
         [p EXCEPT !.accolade = InlineText(line, "<!-- @accolade", "<!-- @end-accolade")]
    [] ~HasInline(line, "<!-- @accolade", "<!-- @end-accolade")
       /\ HasInline(line, "<!-- @image", "<!-- @end-image") ->
         [p EXCEPT !.imageUrl = InlineText(line, "<!-- @image", "<!-- @end-image")]
    [] ~HasInline(line, "<!-- @accolade", "<!-- @end-accolade")
       /\ ~HasInline(line, "<!-- @image", "<!-- @end-image")
       /\ HasInline(line, "<!-- @discount", "<!-- @end-discount") ->
         [p EXCEPT !.discountBuf =
            Append(@, InlineText(line, "<!-- @discount", "<!-- @end-discount"))]
    [] OTHER ->
         IF HasPair(line, "<!-- @accolade", " -->") THEN [p EXCEPT !.inSub = "accolade"]
         ELSE IF HasPair(line, "<!-- @end-accolade", " -->") THEN [p EXCEPT !.inSub = ""]
         ELSE IF HasPair(line, "<!-- @image", " -->") THEN [p EXCEPT !.inSub = "image"]
         ELSE IF HasPair(line, "<!-- @end-image", " -->") THEN [p EXCEPT !.inSub = ""]
         ELSE IF HasPair(line, "<!-- @stats", " -->") THEN [p EXCEPT !.inSub = "stats"]
         ELSE IF HasPair(line, "<!-- @end-stats", " -->") THEN [p EXCEPT !.inSub = ""]
         ELSE IF HasThenSpace(line, "<!-- @cta") THEN [p EXCEPT !.ctaLine = line]
         ELSE IF HasPair(line, "<!-- @discount", " -->") THEN [p EXCEPT !.inSub = "discount"]
         ELSE IF HasPair(line, "<!-- @end-discount", " -->") THEN [p EXCEPT !.inSub = ""]
         ELSE CASE p.inSub = "accolade" -> [p EXCEPT !.accolade = @ \o Trim(line)]
                [] p.inSub = "image"    -> [p EXCEPT !.imageUrl = @ \o Trim(line)]
                [] p.inSub = "stats"    -> [p EXCEPT !.statsBuf = Append(@, line)]
                [] p.inSub = "discount" -> [p EXCEPT !.discountBuf = Append(@, line)]
                [] OTHER -> p

RECURSIVE ProductScan(_, _)
ProductScan(p, ls) ==
  IF ls = <<>> THEN p ELSE ProductScan(ProductLine(p, Head(ls)), Tail(ls))

\* The number of generateUniqueId calls genProductRoundup makes on ls
ProductIdCount(ls) ==
  LET p == ProductScan(ProductInit, ls)
  IN 2 + (IF p.accolade # <<>> THEN 1 ELSE 0) + (IF p.statsBuf # <<>> THEN 4 ELSE 0)
       + (IF p.ctaLine # <<>> THEN 2 ELSE 0) + (IF p.discountBuf # <<>> THEN 2 ELSE 0)

\* Mutant: the discount is placed before the CTA button.
genProductRoundup_DiscountBeforeCta(id, name, ls, ids) ==
  LET p     == ProductScan(ProductInit, ls)
      nAcc  == IF p.accolade # <<>> THEN 1 ELSE 0
      nSt   == IF p.statsBuf # <<>> THEN 4 ELSE 0
      nCta  == IF p.ctaLine # <<>> THEN 2 ELSE 0
      from(k, n) == [j \in 1..n |-> ids[k + j]]
  IN << <<"<!-- wp:", "generateblocks/container", " ", "{\"uniqueId\":\"", ids[1],
          "\",\"anchor\":\"">> \o id \o <<"\",\"className\":\"product-container\"}", " -->">>,
        <<"<!-- wp:", "generateblocks/headline", " ", "{\"uniqueId\":\"", ids[2],
          "\",\"className\":\"product-name\"}", " -->">>,
        <<"<h3 class=\"gb-headline gb-headline-", ids[2],
          " product-roundup-name product-name\"", " id=\"">> \o id \o <<"\"", ">">>
          \o name \o <<"</h3>">>,
        <<"<!-- /wp:", "generateblocks/headline", " -->">> >>
     \o (IF p.accolade # <<>>
         THEN << <<"<!-- wp:", "generateblocks/headline", " ", "{\"uniqueId\":\"", ids[3],
                   "\",\"className\":\"product-accolade\"}", " -->">>,
                 <<"<p class=\"gb-headline gb-headline-", ids[3],
                   " product-roundup-accolade product-accolade\">">>
                   \o p.accolade \o <<"</p>">>,
                 <<"<!-- /wp:", "generateblocks/headline", " -->">> >>
         ELSE <<>>)
     \o (IF p.imageUrl # <<>>
         THEN << <<"<!-- wp:", "image", " -->">>,
                 <<"<figure class=\"wp-block-image\">", "<img src=\"">> \o p.imageUrl
                   \o <<"\"", " alt=\"">> \o name \o <<"\"", "/>", "</figure>">>,
                 <<"<!-- /wp:", "image", " -->">> >>
         ELSE <<>>)
     \o (IF p.statsBuf # <<>> THEN genStatsAccordion(p.statsBuf, from(2 + nAcc, 4)) ELSE <<>>)
     \o (IF p.discountBuf # <<>>
         THEN genDiscount(p.discountBuf, from(2 + nAcc + nSt + nCta, 2)) ELSE <<>>)
     \o (IF p.ctaLine # <<>> THEN genCta(p.ctaLine, from(2 + nAcc + nSt, 2)) ELSE <<>>)
     \o << <<"<!-- /wp:", "generateblocks/container", " -->">> >>

\* ids: the results of the generateUniqueId calls, in call order
genProductRoundup(id, name, ls, ids) ==
  LET p     == ProductScan(ProductInit, ls)
      nAcc  == IF p.accolade # <<>> THEN 1 ELSE 0
      nSt   == IF p.statsBuf # <<>> THEN 4 ELSE 0
      nCta  == IF p.ctaLine # <<>> THEN 2 ELSE 0
      from(k, n) == [j \in 1..n |-> ids[k + j]]
  IN << <<"<!-- wp:", "generateblocks/container", " ", "{\"uniqueId\":\"", ids[1],
          "\",\"anchor\":\"">> \o id \o <<"\",\"className\":\"product-container\"}", " -->">>,
        <<"<!-- wp:", "generateblocks/headline", " ", "{\"uniqueId\":\"", ids[2],
          "\",\"className\":\"product-name\"}", " -->">>,
        <<"<h3 class=\"gb-headline gb-headline-", ids[2],
          " product-roundup-name product-name\"", " id=\"">> \o id \o <<"\"", ">">>
          \o name \o <<"</h3>">>,
        <<"<!-- /wp:", "generateblocks/headline", " -->">> >>
     \o (IF p.accolade # <<>>
         THEN << <<"<!-- wp:", "generateblocks/headline", " ", "{\"uniqueId\":\"", ids[3],
                   "\",\"className\":\"product-accolade\"}", " -->">>,
                 <<"<p class=\"gb-headline gb-headline-", ids[3],
                   " product-roundup-accolade product-accolade\">">>
                   \o p.accolade \o <<"</p>">>,
                 <<"<!-- /wp:", "generateblocks/headline", " -->">> >>
         ELSE <<>>)
     \o (IF p.imageUrl # <<>>
         THEN << <<"<!-- wp:", "image", " -->">>,
                 <<"<figure class=\"wp-block-image\">", "<img src=\"">> \o p.imageUrl
                   \o <<"\"", " alt=\"">> \o name \o <<"\"", "/>", "</figure>">>,
                 <<"<!-- /wp:", "image", " -->">> >>
         ELSE <<>>)
     \o (IF p.statsBuf # <<>> THEN genStatsAccordion(p.statsBuf, from(2 + nAcc, 4)) ELSE <<>>)
     \o (IF p.ctaLine # <<>> THEN genCta(p.ctaLine, from(2 + nAcc + nSt, 2)) ELSE <<>>)
     \o (IF p.discountBuf # <<>>
         THEN genDiscount(p.discountBuf, from(2 + nAcc + nSt + nCta, 2)) ELSE <<>>)
     \o << <<"<!-- /wp:", "generateblocks/container", " -->">> >>

\* The positions where item holds the separator " -- " (space, dash, space)
DashStarts(item) ==
  {k \in 1..Len(item) :
     k + 2 <= Len(item) /\ item[k] = " " /\ item[k + 1] = "--" /\ item[k + 2] = " "}

\* item.replace(/\*\*/g, "") and the split on the first separator
JumpLinkContent(item) ==
  LET cleaned == SelectSeq(item, LAMBDA t : t # "**")
      st      == DashStarts(cleaned)
  IN IF st # {}
     THEN LET k == CHOOSE x \in st : \A y \in st : x <= y
          IN <<"<strong>">> \o SubSeq(cleaned, 1, k - 1) \o <<"</strong>", ":", " ">>
               \o SubSeq(cleaned, k + 3, Len(cleaned))
     ELSE <<"<strong>">> \o cleaned \o <<"</strong>">>

JumpLinkItem(item, uid) ==
  << <<"<!-- wp:", "generateblocks/headline", " ", "{\"uniqueId\":\"", uid,
       "\",\"globalClasses\":[\"intro-box-overview-item\"]}", " -->">>,
     <<"<p class=\"gb-headline gb-headline-", uid, " intro-box-overview-item\">",
       "<span class=\"gb-icon\">", "STAR_SVG", "</span>",
       "<span class=\"gb-headline-text\">">> \o JumpLinkContent(item)
       \o <<"</span>", "</p>">>,
     <<"<!-- /wp:", "generateblocks/headline", " -->">> >>

\* The number of generateUniqueId calls genJumpLinks makes on ls
JumpLinksIdCount(ls) == 2 + Len(BulletItems(ls))

\* ids: the results of the generateUniqueId calls, in call order
genJumpLinks(title, ls, ids) ==
  LET items      == BulletItems(ls)
      itemBlocks == IF items = <<>> THEN << <<>> >>
                    ELSE Concat([k \in 1..Len(items) |-> JumpLinkItem(items[k], ids[2 + k])])
  IN << <<"<!-- wp:", "generateblocks/container", " ", "{\"uniqueId\":\"", ids[1],
          "\",\"metadata\":{\"name\":\"Jump Links Container\"}}", " -->">>,
        <<"<!-- wp:", "generateblocks/headline", " ", "{\"uniqueId\":\"", ids[2],
          "\",\"globalClasses\":[\"intro-box-overview-title\"]}", " -->">>,
        <<"<div class=\"gb-headline gb-headline-", ids[2],
          " gb-headline-text intro-box-overview-title\">">> \o title \o <<"</div>">>,
        <<"<!-- /wp:", "generateblocks/headline", " -->">> >>
     \o itemBlocks
     \o << <<"<!-- /wp:", "generateblocks/container", " -->">> >>

\* The locals of enhanceHints before its for loop.
EnhInitState == [inBlock |-> "", blockBuf |-> <<>>, blockAttrs |-> <<>>, output |-> <<>>]

\* The reset that follows a generated fragment.
CloseHint(e, fragment) ==
  [inBlock |-> "", blockBuf |-> <<>>, blockAttrs |-> <<>>,
   output |-> e.output \o fragment]

\* One of the eight tests for an opening marker holds of line.
OpensHint(line) ==
  \/ Has(line, "<!-- @click-to-tweet") \/ Has(line, "<!-- @protip")
  \/ Has(line, "<!-- @discount") \/ HasPair(line, "<!-- @faq", " -->")
  \/ HasPair(line, "<!-- @key-takeaways", " -->")
  \/ HasThenSpace(line, "<!-- @jump-links")
  \/ HasThenSpace(line, "<!-- @data-lab")
  \/ HasThenSpace(line, "<!-- @product-roundup")

\* The number of generateUniqueId calls the iteration on line makes
IdsNeeded(e, line) ==
  IF e.inBlock = "product-roundup"
  THEN IF HasPair(line, "<!-- @end-product", " -->") THEN ProductIdCount(e.blockBuf) ELSE 0
  ELSE IF OpensHint(line) THEN 0
  ELSE IF HasThenSpace(line, "<!-- @cta") /\ e.inBlock = "" THEN 2
  ELSE IF HasPair(line, "<!-- @end", " -->") /\ e.inBlock # ""
  THEN CASE e.inBlock = "discount"   -> 2
         [] e.inBlock = "faq"        -> FaqIdCount(e.blockBuf)
         [] e.inBlock = "jump-links" -> JumpLinksIdCount(e.blockBuf)
         [] OTHER -> 0
  ELSE 0

\* Mutant: the end marker of the other hints closes the product-roundup too.
ProductStep_EndCloses(e, line, ids) ==
  IF HasPair(line, "<!-- @end-product", " -->")
  THEN CloseHint(e, genProductRoundup(parseAttr(e.blockAttrs, "id"),
                                      parseAttr(e.blockAttrs, "name"), e.blockBuf, ids))
  ELSE IF HasPair(line, "<!-- @end", " -->") THEN CloseHint(e, <<>>)
  ELSE [e EXCEPT !.blockBuf = Append(@, line)]

\* if (inBlock === "product-roundup") { ... continue; }
ProductStep(e, line, ids) ==
  IF HasPair(line, "<!-- @end-product", " -->")
  THEN CloseHint(e, genProductRoundup(parseAttr(e.blockAttrs, "id"),
                                      parseAttr(e.blockAttrs, "name"), e.blockBuf, ids))
  ELSE [e EXCEPT !.blockBuf = Append(@, line)]

\* Mutant: the opening marker leaves the buffered lines of the earlier hint.
OpenStep_KeepsBuffer(e, kind, line) == [e EXCEPT !.inBlock = kind, !.blockAttrs = line]

\* An opening marker that keeps its line as blockAttrs.
OpenStep(e, kind, line) ==
  [e EXCEPT !.inBlock = kind, !.blockBuf = <<>>, !.blockAttrs = line]

\* The opening markers of faq and key-takeaways leave blockAttrs alone.
OpenPlainStep(e, kind) == [e EXCEPT !.inBlock = kind, !.blockBuf = <<>>]

\* Mutant: the CTA line opens a hint instead of emitting its fragment.
CtaStep_OpensHint(e, line, ids) == OpenStep(e, "cta", line)

\* output.push(genCta(line)); continue;
CtaStep(e, line, ids) == [e EXCEPT !.output = @ \o genCta(line, ids)]

\* The switch on inBlock at the end marker, and the reset after it.
EndStep(e, ids) ==
  CloseHint(e,
    CASE e.inBlock = "click-to-tweet" -> genClickToTweet(e.blockBuf)
      [] e.inBlock = "protip"         -> genProTip(e.blockBuf)
      [] e.inBlock = "discount"       -> genDiscount(e.blockBuf, ids)
      [] e.inBlock = "faq"            -> genFaq(e.blockBuf, ids)
      [] e.inBlock = "key-takeaways"  -> genKeyTakeaways(e.blockBuf)
      [] e.inBlock = "jump-links"     ->
           genJumpLinks(parseAttr(e.blockAttrs, "title"), e.blockBuf, ids)
      [] e.inBlock = "data-lab"       ->
           genDataLab(parseAttr(e.blockAttrs, "title"),
                      parseAttr(e.blockAttrs, "columns"), e.blockBuf)
      [] OTHER -> <<>>)

\* Mutant: the continue after blockBuf.push is missing, so a buffered line is
\* copied to the output as well.
BufferOrCopyStep_NoContinue(e, line) ==
  IF e.inBlock # "" THEN [e EXCEPT !.blockBuf = Append(@, line), !.output = Append(@, line)]
  ELSE [e EXCEPT !.output = Append(@, line)]

\* Mutant: a blank line outside a hint is skipped instead of copied.
BufferOrCopyStep_SkipsBlank(e, line) ==
  IF e.inBlock # "" THEN [e EXCEPT !.blockBuf = Append(@, line)]
  ELSE IF Trim(line) = <<>> THEN e
  ELSE [e EXCEPT !.output = Append(@, line)]

\* Mutant: a CTA line inside an open hint is dropped instead of buffered.
BufferOrCopyStep_DropsCta(e, line) ==
  IF e.inBlock # "" /\ HasThenSpace(line, "<!-- @cta") THEN e
  ELSE IF e.inBlock # "" THEN [e EXCEPT !.blockBuf = Append(@, line)]
  ELSE [e EXCEPT !.output = Append(@, line)]

\* if (inBlock) { blockBuf.push(line); continue; }  output.push(line);
BufferOrCopyStep(e, line) ==
  IF e.inBlock # "" THEN [e EXCEPT !.blockBuf = Append(@, line)]
  ELSE [e EXCEPT !.output = Append(@, line)]

\* One iteration of the for loop of enhanceHints.
EnhStep(e, line, ids) ==
  IF e.inBlock = "product-roundup" THEN ProductStep(e, line, ids)
  ELSE IF Has(line, "<!-- @click-to-tweet") THEN OpenStep(e, "click-to-tweet", line)
  ELSE IF Has(line, "<!-- @protip") THEN OpenStep(e, "protip", line)
  ELSE IF Has(line, "<!-- @discount") THEN OpenStep(e, "discount", line)
  ELSE IF HasPair(line, "<!-- @faq", " -->") THEN OpenPlainStep(e, "faq")
  ELSE IF HasPair(line, "<!-- @key-takeaways", " -->") THEN OpenPlainStep(e, "key-takeaways")
  ELSE IF HasThenSpace(line, "<!-- @jump-links") THEN OpenStep(e, "jump-links", line)
  ELSE IF HasThenSpace(line, "<!-- @data-lab") THEN OpenStep(e, "data-lab", line)
  ELSE IF HasThenSpace(line, "<!-- @product-roundup") THEN OpenStep(e, "product-roundup", line)
  ELSE IF HasThenSpace(line, "<!-- @cta") /\ e.inBlock = "" THEN CtaStep(e, line, ids)
  ELSE IF HasPair(line, "<!-- @end", " -->") /\ e.inBlock # "" THEN EndStep(e, ids)
  ELSE BufferOrCopyStep(e, line)

\* output.join("\n") as lines: joining no element gives the empty text, which
\* is one empty line.
JoinedLines(out) == IF out = <<>> THEN << <<>> >> ELSE out

\* The texts enhanceHints can return on ls from the state e, one for every
\* choice of the tokens generateUniqueId returns.
RECURSIVE EnhOutcomes(_, _)
EnhOutcomes(e, ls) ==
  IF ls = <<>> THEN {JoinedLines(e.output)}
  ELSE UNION {EnhOutcomes(EnhStep(e, Head(ls), ids), Tail(ls)) :
                ids \in [1..IdsNeeded(e, Head(ls)) -> Uids]}

enhanceHints(ls) == EnhOutcomes(EnhInitState, ls)

\* ================================================== stripAiCommentary
PREAMBLE_PREFIXES ==
  {"sure", "here is", "here's", "here are", "here you go", "below is",
   "below are", "i'll", "certainly", "of course", "okay,", "okay!", "ok,",
   "ok!", "great", "absolutely", "i've", "i have", "the following",
   "as requested", "per your"}

POSTAMBLE_PREFIXES ==
  {"let me know", "would you like", "i hope", "feel free", "if you'd like",
   "i can also", "happy to", "shall i", "want me", "is there anything",
   "please let", "do you want", "should i", "i'm happy", "don't hesitate"}

\* toLowerCase() on one token
LowerTok(t) ==
  CASE t = "Sure" -> "sure" [] t = "Here is" -> "here is"
    [] t = "Let me know" -> "let me know" [] t = "I hope" -> "i hope"
    [] OTHER -> t

\* line.trim().toLowerCase()
Lower(line) == LET t == Trim(line) IN [k \in 1..Len(t) |-> LowerTok(t[k])]

isPreambleLine(line) ==
  LET lower == Lower(line)
  IN lower = <<>> \/ lower = <<"---">> \/ lower[1] \in PREAMBLE_PREFIXES

\* /^#{1,6}\s/.test(trimmed) || trimmed.startsWith("<!-- wp:")
isContentStart(line) ==
  LET trimmed == Trim(line)
  IN \/ Len(trimmed) >= 2 /\ trimmed[2] = " "
          /\ trimmed[1] \in {"#", "##", "###", "####", "#####", "######"}
     \/ StartsWith(trimmed, "<!-- wp:")

\* Mutant: a divider line is not taken for postamble.
isPostambleLine_NoDivider(line) ==
  LET lower == Lower(line)
  IN lower = <<>> \/ (lower # <<"---">> /\ lower[1] \in POSTAMBLE_PREFIXES)

isPostambleLine(line) ==
  LET lower == Lower(line)
  IN lower = <<>> \/ lower = <<"---">> \/ lower[1] \in POSTAMBLE_PREFIXES

\* The locals of stripAiCommentary when the first loop starts; indices are
\* counted from 1, so firstReal = 1 stands for the source's 0.
StripInitState(ls) == [loop |-> "top", i |-> 1, firstReal |-> 1, lastReal |-> Len(ls)]

\* The state in which the second loop starts.
ToBottom(t, ls, first) ==
  [loop |-> "bottom", i |-> Len(ls), firstReal |-> first, lastReal |-> Len(ls)]

\* Mutant: the first loop skips postamble lines as well.
TopStep_SkipsPostamble(t, ls) ==
  IF t.i > Len(ls) THEN ToBottom(t, ls, t.firstReal)
  ELSE IF isContentStart(ls[t.i]) THEN ToBottom(t, ls, t.i)
  ELSE IF isPreambleLine(ls[t.i]) \/ isPostambleLine(ls[t.i])
  THEN [t EXCEPT !.firstReal = t.i + 1, !.i = t.i + 1]
  ELSE ToBottom(t, ls, t.i)

\* One iteration, or the exit test, of the first loop.
TopStep(t, ls) ==
  IF t.i > Len(ls) THEN ToBottom(t, ls, t.firstReal)
  ELSE IF isContentStart(ls[t.i]) THEN ToBottom(t, ls, t.i)
  ELSE IF isPreambleLine(ls[t.i]) THEN [t EXCEPT !.firstReal = t.i + 1, !.i = t.i + 1]
  ELSE ToBottom(t, ls, t.i)

\* Mutant: the second loop does not move its index past a postamble line.
BottomStep_NoDecrement(t, ls) ==
  IF t.i < t.firstReal THEN [t EXCEPT !.loop = "return"]
  ELSE IF isPostambleLine(ls[t.i]) THEN [t EXCEPT !.lastReal = t.i - 1]
  ELSE [t EXCEPT !.lastReal = t.i, !.loop = "return"]

\* Mutant: the second loop removes one postamble line and stops.
BottomStep_OneLine(t, ls) ==
  IF t.i < t.firstReal THEN [t EXCEPT !.loop = "return"]
  ELSE IF isPostambleLine(ls[t.i]) THEN [t EXCEPT !.lastReal = t.i - 1, !.loop = "return"]
  ELSE [t EXCEPT !.lastReal = t.i, !.loop = "return"]

\* One iteration, or the exit test, of the second loop.
BottomStep(t, ls) ==
  IF t.i < t.firstReal THEN [t EXCEPT !.loop = "return"]
  ELSE IF isPostambleLine(ls[t.i]) THEN [t EXCEPT !.lastReal = t.i - 1, !.i = t.i - 1]
  ELSE [t EXCEPT !.lastReal = t.i, !.loop = "return"]

RECURSIVE DropLeadingBlank(_)
DropLeadingBlank(ls) ==
  IF ls # <<>> /\ Trim(ls[1]) = <<>> THEN DropLeadingBlank(Tail(ls)) ELSE ls

RECURSIVE DropTrailingBlank(_)
DropTrailingBlank(ls) ==
  IF ls # <<>> /\ Trim(ls[Len(ls)]) = <<>>
  THEN DropTrailingBlank(SubSeq(ls, 1, Len(ls) - 1)) ELSE ls

\* ls.join("\n").trim(), as the lines it splits into
TrimText(ls) ==
  LET r == DropTrailingBlank(DropLeadingBlank(ls))
  IN IF r = <<>> THEN << <<>> >>
     ELSE IF Len(r) = 1 THEN << Trim(r[1]) >>
     ELSE << TrimStart(r[1]) >> \o SubSeq(r, 2, Len(r) - 1) \o << TrimEnd(r[Len(r)]) >>

\* if (lastReal < firstReal) return ""; return lines.slice(...).join("\n").trim()
StripResult(t, ls) ==
  IF t.lastReal < t.firstReal THEN << <<>> >>
  ELSE TrimText(SubSeq(ls, t.firstReal, t.lastReal))

RECURSIVE StripRun(_, _)
StripRun(t, ls) ==
  IF t.loop = "top" THEN StripRun(TopStep(t, ls), ls)
  ELSE IF t.loop = "bottom" THEN StripRun(BottomStep(t, ls), ls)
  ELSE t

stripAiCommentary(ls) == StripResult(StripRun(StripInitState(ls), ls), ls)

\* ------------------------------------------------------------ the inputs
LWpOpen  == <<"<!-- wp:", "x", " -->">>
LWpClose == <<"<!-- /wp:", "x", " -->">>
LWpSelf  == <<"<!-- wp:", "x", " ", "/-->">>
LFence   == <<"~~~">>
LScOpen  == <<"[", "sc", "]">>
LScClose == <<"[/", "sc", "]">>
LRow     == <<"|", "a", "|">>
LSep     == <<"|", "-", "|">>
LQuote   == <<">", " ", "a">>
LBlank   == <<>>
LHeading == <<"###", " ", "a", " ", "{.", "x", "}">>
LHeading2 == <<"##", " ", "**", "b", "**", " ", " ", "{.", "y", "}">>
LUl      == <<"-", " ", "a">>
LOl      == <<"1", ".", " ", "b">>
LPara    == <<"**", "b", "**">>

\* Block markup, code fences and shortcodes.
MarkupLines ==
  {LWpOpen, LWpClose, LWpSelf, LFence, LScOpen, LScClose, LBlank, LPara}

\* Markdown blocks.
MarkdownLines ==
  {LRow, LSep, LQuote, LBlank, LHeading, LHeading2, LUl, LOl, LPara}

\* The lines an input text is made of.
ConvLines == MarkupLines \cup MarkdownLines

\* input.split("\n") has at least one line.
ConvInputs ==
  UNION ({[1..n -> ConvLines] : n \in 1..MaxMixedLines}
         \cup {[1..n -> MarkupLines] : n \in 1..MaxLines}
         \cup {[1..n -> MarkdownLines] : n \in 1..MaxLines})

\* ------------------------------------------------------------- variables
\* Lines of the hint syntax.
EClickToTweet == <<"<!-- @click-to-tweet", " -->">>
EProTip       == <<"<!-- @protip", " -->">>
EDiscount     == <<"<!-- @discount", " -->">>
EFaq          == <<"<!-- @faq", " -->">>
EFaqAttr      == <<"<!-- @faq", " ", "x", " -->">>
EKeyTakeaways == <<"<!-- @key-takeaways", " -->">>
EJumpLinks    == <<"<!-- @jump-links", " ", "title=\"", "t", "\"", " -->">>
EDataLab      ==
  <<"<!-- @data-lab", " ", "title=\"", "t", "\"", " ", "columns=\"", "c", "\"", " -->">>
EProduct      ==
  <<"<!-- @product-roundup", " ", "id=\"", "p", "\"", " ", "name=\"", "n", "\"", " -->">>
ECta          == <<"<!-- @cta", " ", "url=\"", "u", "\"", " ", "text=\"", "go", "\"", " -->">>
EEnd          == <<"<!-- @end", " -->">>
EEndProduct   == <<"<!-- @end-product", " -->">>
EText         == <<"a">>
EBullet       == <<"-", " ", "**", "k", "**", " ", "--", " ", "v">>
EQuestion     == <<"##", " ", "q", "?">>
EStats        == <<"<!-- @stats", " -->">>
EEndStats     == <<"<!-- @end-stats", " -->">>
EAccolade     == <<"<!-- @accolade", " -->", "best", "<!-- @end-accolade", " -->">>
EImage        == <<"<!-- @image", " -->", "img", "<!-- @end-image", " -->">>
ESubDiscount  == <<"<!-- @discount", " -->", "off", "<!-- @end-discount", " -->">>

\* The lines the texts given to enhanceHints are made of.
HintLines ==
  {EClickToTweet, EProTip, EDiscount, EFaq, EFaqAttr, EKeyTakeaways, EJumpLinks,
   EDataLab, EProduct, ECta, EEnd, EEndProduct, EText, EBullet, EQuestion, LBlank}

\* The lines the body of a product-roundup is made of.
ProductLines == {EStats, EEndStats, EAccolade, EImage, ESubDiscount, ECta, EBullet, EText}

\* Lines of the legacy question and answer syntax of the FAQ hint.
EBoldQ == <<"**Q:", " ", "q", "**">>
EBoldA == <<"**A:**", " ", "b">>

\* The lines the body of a FAQ hint is made of.
FaqLines == {EQuestion, EBoldQ, EBoldA, EText, LBlank}

\* The lines the body of a key-takeaways hint is made of.
TakeawayLines == {EBullet, EText}

\* The texts given to enhanceHints: up to MaxHintLines lines of the hint
\* syntax, product-roundups with a body of up to MaxProductLines lines, FAQ
\* hints with a body of up to MaxFaqLines lines, and key-takeaways hints
\* with a body of up to MaxTakeawayLines lines.
EnhInputs ==
  UNION {[1..n -> HintLines] : n \in 1..MaxHintLines}
  \cup {<<EProduct>> \o body \o <<EEndProduct>> :
          body \in UNION {[1..n -> ProductLines] : n \in 0..MaxProductLines}}
  \cup {<<EFaq>> \o body \o <<EEnd>> :
          body \in UNION {[1..n -> FaqLines] : n \in 0..MaxFaqLines}}
  \cup {<<EKeyTakeaways>> \o body \o <<EEnd>> :
          body \in UNION {[1..n -> TakeawayLines] : n \in 0..MaxTakeawayLines}}

\* Lines of AI commentary and of content.
SHeading   == <<"##", " ", "T">>
SIndented  == <<" ", "#", " ", "T">>
SPreamble  == <<"Sure", ",", " ", "here">>
SPostamble == <<"Let me know", "!">>
SDivider   == <<"---">>
SSpaces    == <<" ">>
SPara      == <<"a">>
SPadded    == <<"a", " ">>

StripLines ==
  {SHeading, SIndented, SPreamble, SPostamble, SDivider, SSpaces, SPara, SPadded,
   LBlank, LWpSelf}

\* The texts given to stripAiCommentary.
StripInputs == UNION {[1..n -> StripLines] : n \in 1..MaxStripLines}

VARIABLES
  posts,            \* the WordPress site: its posts, the id is the position
  calls,            \* handlePosts create: the state of each running call
  sent,             \* history: the write requests sent to the posts routes
  corrections_log,  \* FeedbackStore: data.corrections_log
  logged,           \* history: the logCorrection calls made so far
  wpTypes,          \* the WordPress site: the slugs of its post types
  mode,             \* toolHandler: params.mode of the running call
  tpc,              \* toolHandler: "idle", "preflight", "handler", "returned"
  blocked,          \* toolHandler: what preFlightCheck returned
  toolResponse,     \* toolHandler: the value returned
  accepted,         \* PostTypeRegistry: data.accepted, slug -> entry
  ignored,          \* PostTypeRegistry: data.ignored, slug -> entry
  cacheTTL,         \* WordPressAPI: lifetime of a cache entry
  cache,            \* WordPressAPI: cache key -> [data, expires]
  now,              \* Date.now()
  issued,           \* network requests made so far (client.request calls)
  pending,          \* calls waiting for the answer to their request
  apiResult,        \* what the last finished call returned or threw
  fetched,          \* history: key -> the last successful fetch since the
                    \* last post, put, delete or uploadMedia call
  stale,            \* history: keys cached at a mutation call and not
                    \* requested over the network since
  params,           \* handleConvert: content, strip_ai_commentary, enhance
  content,          \* handleConvert: the text handed from stage to stage
  hpc,              \* handleConvert: the statement to run next
  response,         \* handleConvert: the value returned
  call,             \* the number of the running invocation, 1 or 2
  earlier,          \* the first invocation: the text it returned (Reinvoke)
                    \* or the text it was given (StripAgain)
  firstReal,        \* stripAiCommentary: first real line, counted from 1
  lastReal,         \* stripAiCommentary: last real line, counted from 1
  inBlock,          \* enhanceHints: the open hint kind, "" for none
  blockBuf,         \* the lines buffered for the open hint
  blockAttrs,       \* the opening marker line of the open hint
  lines,            \* the input split into lines
  i,                \* loop index, from 1
  pc,               \* "loop" then "done" for markdownToGutenberg,
                    \* "hints" then "hintsDone" for enhanceHints,
                    \* "stripTop", "stripBottom", "stripReturn" then
                    \* "stripped" for stripAiCommentary
  inCode, codeLines,
  inList, listOrdered, listItems,
  inTable, tableHeaderRow, tableDataRows,
  inGutenbergBlock, gutenbergLines,
  inShortcode, shortcodeTag, shortcodeLines,
  inBlockquote, blockquoteLines,
  output,           \* the lines pushed to output so far
  result            \* the lines of the returned text, once pc = "done"

convVars ==
  <<lines, i, pc, inCode, codeLines, inList, listOrdered, listItems, inTable,
    tableHeaderRow, tableDataRows, inGutenbergBlock, gutenbergLines,
    inShortcode, shortcodeTag, shortcodeLines, inBlockquote, blockquoteLines,
    output, result>>

enhVars == <<inBlock, blockBuf, blockAttrs>>

stripVars == <<firstReal, lastReal>>

callVars == <<call, earlier>>

handlerVars == <<params, content, hpc, response>>

apiVars == <<cacheTTL, cache, now, issued, pending, apiResult, fetched, stale>>

registryVars == <<accepted, ignored>>

toolVars == <<wpTypes, mode, tpc, blocked, toolResponse>>

feedbackVars == <<corrections_log, logged>>

postsVars == <<posts, calls, sent>>

siteVars == <<registryVars, toolVars, feedbackVars, postsVars>>

vars == <<convVars, enhVars, stripVars, callVars, handlerVars, apiVars, siteVars>>

\* What the steps of one function leave alone.
convFrame == <<enhVars, stripVars, callVars, handlerVars, apiVars, siteVars>>

HandlerIdle ==
  /\ params = [content |-> <<>>, strip_ai_commentary |-> FALSE, enhance |-> FALSE]
  /\ content = <<>> /\ hpc = "idle" /\ response = [none |-> TRUE]

\* No WordPressAPI object is in use.
ApiIdle ==
  /\ cacheTTL = 0 /\ cache = <<>> /\ now = 0 /\ issued = 0 /\ pending = {}
  /\ apiResult = [none |-> TRUE] /\ fetched = <<>> /\ stale = {}

\* No registry, feedback store or WordPress site is in use.
RegistryIdle == accepted = <<>> /\ ignored = <<>>

ToolIdle ==
  /\ wpTypes = {} /\ mode = "" /\ tpc = "idle"
  /\ blocked = [run |-> FALSE] /\ toolResponse = [none |-> TRUE]

FeedbackIdle == corrections_log = <<>> /\ logged = 0

PostsIdle == posts = <<>> /\ calls = <<>> /\ sent = <<>>

SiteIdle == RegistryIdle /\ ToolIdle /\ FeedbackIdle /\ PostsIdle

CallIdle == call = 1 /\ earlier = <<>> /\ HandlerIdle /\ ApiIdle /\ SiteIdle

\* The variables of the functions that are not running keep these values.
EnhIdle == inBlock = "" /\ blockBuf = <<>> /\ blockAttrs = <<>>

StripIdle == firstReal = 0 /\ lastReal = 0

\* The local state as the record the loop body works on.
ConvState ==
  [inCode |-> inCode, codeLines |-> codeLines,
   inList |-> inList, listOrdered |-> listOrdered, listItems |-> listItems,
   inTable |-> inTable, tableHeaderRow |-> tableHeaderRow,
   tableDataRows |-> tableDataRows,
   inGutenbergBlock |-> inGutenbergBlock, gutenbergLines |-> gutenbergLines,
   inShortcode |-> inShortcode, shortcodeTag |-> shortcodeTag,
   shortcodeLines |-> shortcodeLines,
   inBlockquote |-> inBlockquote, blockquoteLines |-> blockquoteLines,
   output |-> output]

\* The variables take the fields of s.
SetConvState(s) ==
  /\ inCode' = s.inCode /\ codeLines' = s.codeLines
  /\ inList' = s.inList /\ listOrdered' = s.listOrdered
  /\ listItems' = s.listItems
  /\ inTable' = s.inTable /\ tableHeaderRow' = s.tableHeaderRow
  /\ tableDataRows' = s.tableDataRows
  /\ inGutenbergBlock' = s.inGutenbergBlock
  /\ gutenbergLines' = s.gutenbergLines
  /\ inShortcode' = s.inShortcode /\ shortcodeTag' = s.shortcodeTag
  /\ shortcodeLines' = s.shortcodeLines
  /\ inBlockquote' = s.inBlockquote /\ blockquoteLines' = s.blockquoteLines
  /\ output' = s.output

ConvInit ==
  /\ lines \in ConvInputs
  /\ i = 1
  /\ pc = "loop"
  /\ inCode = FALSE /\ codeLines = <<>>
  /\ inList = FALSE /\ listOrdered = FALSE /\ listItems = <<>>
  /\ inTable = FALSE /\ tableHeaderRow = <<>> /\ tableDataRows = <<>>
  /\ inGutenbergBlock = 0 /\ gutenbergLines = <<>>
  /\ inShortcode = FALSE /\ shortcodeTag = NoTag /\ shortcodeLines = <<>>
  /\ inBlockquote = FALSE /\ blockquoteLines = <<>>
  /\ output = <<>>
  /\ result = <<>>
  /\ EnhIdle /\ StripIdle /\ CallIdle

\* One iteration of the for loop: the line at i is dispatched.
ProcessLine ==
  /\ pc = "loop"
  /\ i <= Len(lines)
  /\ SetConvState(Step(ConvState, lines[i], SubSeq(lines, i + 1, Len(lines))))
  /\ i' = i + 1
  /\ UNCHANGED <<lines, pc, result, convFrame>>

\* After the loop: flushAll, join, trim the trailing newlines, return.
Finish ==
  /\ pc = "loop"
  /\ i > Len(lines)
  /\ SetConvState(flushAll(ConvState))
  /\ result' = ResultLines(flushAll(ConvState).output)
  /\ pc' = "done"
  /\ UNCHANGED <<lines, i, convFrame>>

ConvNext == ProcessLine \/ Finish

SpecConv == ConvInit /\ [][ConvNext]_vars

\* ------------------------------------------------------------ enhanceHints
\* The variables markdownToGutenberg alone uses.
convLocals ==
  <<inCode, codeLines, inList, listOrdered, listItems, inTable, tableHeaderRow,
    tableDataRows, inGutenbergBlock, gutenbergLines, inShortcode, shortcodeTag,
    shortcodeLines, inBlockquote, blockquoteLines>>

ConvIdle ==
  /\ inCode = FALSE /\ codeLines = <<>>
  /\ inList = FALSE /\ listOrdered = FALSE /\ listItems = <<>>
  /\ inTable = FALSE /\ tableHeaderRow = <<>> /\ tableDataRows = <<>>
  /\ inGutenbergBlock = 0 /\ gutenbergLines = <<>>
  /\ inShortcode = FALSE /\ shortcodeTag = NoTag /\ shortcodeLines = <<>>
  /\ inBlockquote = FALSE /\ blockquoteLines = <<>>

enhFrame == <<convLocals, stripVars, callVars, handlerVars, apiVars, siteVars>>

stripFrame == <<convLocals, enhVars, output, callVars, handlerVars, apiVars, siteVars>>

\* The local state as the record the loop body works on.
EnhState ==
  [inBlock |-> inBlock, blockBuf |-> blockBuf, blockAttrs |-> blockAttrs,
   output |-> output]

EnhInit ==
  /\ lines \in EnhInputs
  /\ i = 1
  /\ pc = "hints"
  /\ inBlock = "" /\ blockBuf = <<>> /\ blockAttrs = <<>>
  /\ output = <<>>
  /\ result = <<>>
  /\ ConvIdle /\ StripIdle /\ CallIdle

\* One iteration of the for loop; every generateUniqueId call of the
\* iteration returns some token.
EnhProcessLine ==
  /\ pc = "hints"
  /\ i <= Len(lines)
  /\ \E ids \in [1..IdsNeeded(EnhState, lines[i]) -> Uids] :
       LET e == EnhStep(EnhState, lines[i], ids)
       IN /\ inBlock' = e.inBlock /\ blockBuf' = e.blockBuf
          /\ blockAttrs' = e.blockAttrs /\ output' = e.output
  /\ i' = i + 1
  /\ UNCHANGED <<lines, pc, result, enhFrame>>

\* return output.join("\n")
EnhFinish ==
  /\ pc = "hints"
  /\ i > Len(lines)
  /\ result' = JoinedLines(output)
  /\ pc' = "hintsDone"
  /\ UNCHANGED <<lines, i, output, enhVars, enhFrame>>

EnhNext == EnhProcessLine \/ EnhFinish

SpecEnh == EnhInit /\ [][EnhNext]_vars

\* ------------------------------------------------------- stripAiCommentary
\* The locals as the record the loop steps work on.
StripState ==
  [loop |-> IF pc = "stripTop" THEN "top" ELSE IF pc = "stripBottom" THEN "bottom"
            ELSE "return",
   i |-> i, firstReal |-> firstReal, lastReal |-> lastReal]

\* The variables take the fields of t.
SetStripState(t) ==
  /\ pc' = (IF t.loop = "top" THEN "stripTop" ELSE IF t.loop = "bottom" THEN "stripBottom"
            ELSE "stripReturn")
  /\ i' = t.i /\ firstReal' = t.firstReal /\ lastReal' = t.lastReal

StripInit ==
  /\ lines \in StripInputs
  /\ pc = "stripTop"
  /\ i = 1 /\ firstReal = 1 /\ lastReal = Len(lines)
  /\ output = <<>>
  /\ result = <<>>
  /\ ConvIdle /\ EnhIdle /\ CallIdle

\* The first loop: one iteration or its exit.
StripTop ==
  /\ pc = "stripTop"
  /\ SetStripState(TopStep(StripState, lines))
  /\ UNCHANGED <<lines, result, stripFrame>>

\* The second loop: one iteration or its exit.
StripBottom ==
  /\ pc = "stripBottom"
  /\ SetStripState(BottomStep(StripState, lines))
  /\ UNCHANGED <<lines, result, stripFrame>>

\* The guard and the return.
StripReturn ==
  /\ pc = "stripReturn"
  /\ result' = StripResult(StripState, lines)
  /\ pc' = "stripped"
  /\ UNCHANGED <<lines, i, stripVars, stripFrame>>

StripNext == StripTop \/ StripBottom \/ StripReturn

SpecStrip == StripInit /\ [][StripNext]_vars

\* ------------------------------------------- stripAiCommentary on its result
\* stripAiCommentary(stripAiCommentary(x)): the text the first invocation
\* returned, split into lines, is the input of the second one.
StripAgain ==
  /\ call = 1
  /\ pc = "stripped"
  /\ call' = 2
  /\ earlier' = lines
  /\ lines' = result
  /\ result' = <<>>
  /\ pc' = "stripTop"
  /\ i' = 1 /\ firstReal' = 1 /\ lastReal' = Len(result)
  /\ UNCHANGED <<output, convLocals, enhVars, handlerVars, apiVars, siteVars>>

RestripNext == StripNext \/ StripAgain

SpecRestrip == StripInit /\ [][RestripNext]_vars

\* ------------------------------------------------- two invocations in a row
\* The texts given twice to one of the three functions.
TwiceInputs(alphabet) == UNION {[1..n -> alphabet] : n \in 1..MaxTwiceLines}

\* The first invocation of one of the three functions.
TwiceInit ==
  /\ i = 1 /\ output = <<>> /\ result = <<>>
  /\ ConvIdle /\ EnhIdle /\ CallIdle
  /\ \/ pc = "loop" /\ lines \in TwiceInputs(ConvLines) /\ StripIdle
     \/ pc = "hints" /\ lines \in TwiceInputs(HintLines) /\ StripIdle
     \/ /\ pc = "stripTop" /\ lines \in TwiceInputs(StripLines)
        /\ firstReal = 1 /\ lastReal = Len(lines)

\* Mutant: the output array lives outside the function and is not emptied
\* at entry.
FreshLocals_SharedOutput(stripping) ==
  /\ i' = 1 /\ output' = output
  /\ inCode' = FALSE /\ codeLines' = <<>>
  /\ inList' = FALSE /\ listOrdered' = FALSE /\ listItems' = <<>>
  /\ inTable' = FALSE /\ tableHeaderRow' = <<>> /\ tableDataRows' = <<>>
  /\ inGutenbergBlock' = 0 /\ gutenbergLines' = <<>>
  /\ inShortcode' = FALSE /\ shortcodeTag' = NoTag /\ shortcodeLines' = <<>>
  /\ inBlockquote' = FALSE /\ blockquoteLines' = <<>>
  /\ inBlock' = "" /\ blockBuf' = <<>> /\ blockAttrs' = <<>>
  /\ firstReal' = (IF stripping THEN 1 ELSE 0)
  /\ lastReal' = (IF stripping THEN Len(lines) ELSE 0)

\* Function entry: every local is declared and initialised inside the function.
FreshLocals(stripping) ==
  /\ i' = 1 /\ output' = <<>>
  /\ inCode' = FALSE /\ codeLines' = <<>>
  /\ inList' = FALSE /\ listOrdered' = FALSE /\ listItems' = <<>>
  /\ inTable' = FALSE /\ tableHeaderRow' = <<>> /\ tableDataRows' = <<>>
  /\ inGutenbergBlock' = 0 /\ gutenbergLines' = <<>>
  /\ inShortcode' = FALSE /\ shortcodeTag' = NoTag /\ shortcodeLines' = <<>>
  /\ inBlockquote' = FALSE /\ blockquoteLines' = <<>>
  /\ inBlock' = "" /\ blockBuf' = <<>> /\ blockAttrs' = <<>>
  /\ firstReal' = (IF stripping THEN 1 ELSE 0)
  /\ lastReal' = (IF stripping THEN Len(lines) ELSE 0)

\* The function that has returned is called again on the same text.
Reinvoke ==
  /\ call = 1
  /\ pc \in {"done", "hintsDone", "stripped"}
  /\ call' = 2
  /\ earlier' = result
  /\ result' = <<>>
  /\ pc' = (IF pc = "done" THEN "loop" ELSE IF pc = "hintsDone" THEN "hints"
            ELSE "stripTop")
  /\ FreshLocals(pc = "stripped")
  /\ UNCHANGED <<lines, handlerVars, apiVars, siteVars>>

TwiceNext == ConvNext \/ EnhNext \/ StripNext \/ Reinvoke

SpecTwice == TwiceInit /\ [][TwiceNext]_vars

\* ---------------------------------------------------------------------------
\* One call of one stage on a text with open, unclosed and stray markers.

\* Converter lines that open a mode, with the lines that could close it.
StageConvLines == {LWpOpen, LFence, LScOpen, LScClose, LRow, LQuote, LUl, LPara, LBlank}

\* Hint lines: openers, a marker that matches no opener, close markers, text.
StageHintLines == {EProTip, EFaqAttr, EProduct, ECta, EEnd, EEndProduct, EText, LBlank}

StageInputs(alphabet) == UNION {[1..n -> alphabet] : n \in 1..MaxStageLines}

StagesInit ==
  /\ i = 1 /\ output = <<>> /\ result = <<>>
  /\ ConvIdle /\ EnhIdle /\ CallIdle
  /\ \/ pc = "loop" /\ lines \in StageInputs(StageConvLines) /\ StripIdle
     \/ pc = "hints" /\ lines \in StageInputs(StageHintLines) /\ StripIdle
     \/ /\ pc = "stripTop" /\ lines \in StageInputs(StripLines)
        /\ firstReal = 1 /\ lastReal = Len(lines)

StagesNext == ConvNext \/ EnhNext \/ StripNext

SpecStages == StagesInit /\ [][StagesNext]_vars

\* ----------------------------------------------------------- handleConvert
\* The lines the content of a convert request is made of.
PipeLines ==
  {SPreamble, SHeading, SPostamble, EProTip, EText, EEnd, ECta, LBlank, LPara}

\* The requests: a content of up to MaxPipeLines lines, or the empty
\* content, with the two flags.
ConvertRequests ==
  [content : UNION {[1..n -> PipeLines] : n \in 1..MaxPipeLines},
   strip_ai_commentary : BOOLEAN, enhance : BOOLEAN]

\* Mutant: the strip stage runs whatever the flag says.
StripStage_IgnoresFlag(c, p) == stripAiCommentary(c)

\* if (params.strip_ai_commentary) content = stripAiCommentary(content);
StripStage(c, p) == IF p.strip_ai_commentary THEN stripAiCommentary(c) ELSE c

\* if (params.enhance) content = enhanceHints(content); the texts content
\* can become
EnhanceStage(c, p) == IF p.enhance THEN enhanceHints(c) ELSE {c}

HandlerInit ==
  /\ params \in ConvertRequests
  /\ content = <<>> /\ hpc = "entry" /\ response = [none |-> TRUE]
  /\ lines = <<>> /\ i = 1 /\ pc = "idle" /\ output = <<>> /\ result = <<>>
  /\ ConvIdle /\ EnhIdle /\ StripIdle /\ call = 1 /\ earlier = <<>> /\ ApiIdle /\ SiteIdle

\* if (!params.content) return ...; let content = params.content;
HcEntry ==
  /\ hpc = "entry"
  /\ IF params.content = << <<>> >>
     THEN /\ response' = [error |-> "content is required"]
          /\ hpc' = "returned"
          /\ UNCHANGED content
     ELSE /\ content' = params.content
          /\ hpc' = "strip"
          /\ UNCHANGED response
  /\ UNCHANGED <<params, convVars, enhVars, stripVars, callVars, apiVars, siteVars>>

HcStrip ==
  /\ hpc = "strip"
  /\ content' = StripStage(content, params)
  /\ hpc' = "enhance"
  /\ UNCHANGED <<params, response, convVars, enhVars, stripVars, callVars, apiVars, siteVars>>

HcEnhance ==
  /\ hpc = "enhance"
  /\ content' \in EnhanceStage(content, params)
  /\ hpc' = "convert"
  /\ UNCHANGED <<params, response, convVars, enhVars, stripVars, callVars, apiVars, siteVars>>

\* content = markdownToGutenberg(content); return JSON.stringify({ content });
HcConvert ==
  /\ hpc = "convert"
  /\ content' = markdownToGutenberg(content)
  /\ response' = [content |-> markdownToGutenberg(content)]
  /\ hpc' = "returned"
  /\ UNCHANGED <<params, convVars, enhVars, stripVars, callVars, apiVars, siteVars>>

HandlerNext == HcEntry \/ HcStrip \/ HcEnhance \/ HcConvert

SpecHandler == HandlerInit /\ [][HandlerNext]_vars

\* ---------------------------------------------------------------------------
\* WordPressAPI (api.ts): the response cache of get and the calls that clear it.
\* A response is identified by the number of the request that fetched it.

\* if (this.cache.size > 1000)
CacheSizeLimit == 1000

\* request(..., retries = 3)
DefaultRetries == 3

\* A params argument: undefined, or an object whose properties are listed
\* in insertion order.
NoParams == [defined |-> FALSE, props |-> <<>>]

Params(props) == [defined |-> TRUE, props |-> props]

PPage == <<"page", 2>>

PPerPage == <<"per_page", 10>>

\* The cacheTTL values given to the constructor.
CacheTTLs == {1, 2}

\* The arguments the calls of a run are made with.
ApiPaths == {"/wp/v2/posts"}

ApiParams == {Params(<<PPage, PPerPage>>), Params(<<PPerPage, PPage>>)}

\* JSON.stringify(params ?? {}): the properties in insertion order.
JsonStringify(p) == IF p.defined THEN p.props ELSE <<>>

cacheKey(method, path, p) == <<method, path, JsonStringify(p)>>

\* The same query: the same properties with the same values, in any order.
SameParams(p, q) ==
  {JsonStringify(p)[n] : n \in 1..Len(JsonStringify(p))}
    = {JsonStringify(q)[n] : n \in 1..Len(JsonStringify(q))}

\* cached && cached.expires > Date.now()
IsHit(c, key, t) == key \in DOMAIN c /\ c[key].expires > t

\* The purge before a request: above the size limit, the expired entries
\* are deleted.
Purged(c, t) ==
  IF Cardinality(DOMAIN c) > CacheSizeLimit
  THEN [k \in {x \in DOMAIN c : ~(c[x].expires <= t)} |-> c[k]]
  ELSE c

\* this.cache.set(key, entry)
CacheSet(c, key, entry) == [k \in DOMAIN c \cup {key} |-> IF k = key THEN entry ELSE c[k]]

\* History kept for the properties: every recorded fetch is marked when
\* clearCache is called.
MarkCleared(f) == [k \in DOMAIN f |-> [f[k] EXCEPT !.cleared = TRUE]]

\* new WordPressAPI(config, cacheTTL)
ApiInit ==
  /\ cacheTTL \in CacheTTLs
  /\ cache = <<>> /\ now = 0 /\ issued = 0 /\ pending = {}
  /\ apiResult = [none |-> TRUE] /\ fetched = <<>> /\ stale = {}
  /\ lines = <<>> /\ i = 1 /\ pc = "idle" /\ output = <<>> /\ result = <<>>
  /\ ConvIdle /\ EnhIdle /\ StripIdle /\ call = 1 /\ earlier = <<>> /\ HandlerIdle
  /\ SiteIdle

apiFrame == <<convVars, enhVars, stripVars, callVars, handlerVars, siteVars>>

\* get, lines 75-77: the entry is there and not expired; it is returned.
GetHit(path, p) ==
  LET key == cacheKey("GET", path, p)
  IN /\ IsHit(cache, key, now)
     /\ apiResult' = [value |-> cache[key].data, from |-> "cache"]
     /\ UNCHANGED <<cacheTTL, cache, now, issued, pending, fetched, stale, apiFrame>>

\* get, lines 75-86: no usable entry; the purge, then the request is sent
\* and the call waits for the answer.
GetMiss(path, p) ==
  LET key == cacheKey("GET", path, p)
  IN /\ ~IsHit(cache, key, now)
     /\ cache' = Purged(cache, now)
     /\ issued' = issued + 1
     /\ pending' = pending \cup {[method |-> "GET", key |-> key,
                                   req |-> issued + 1, retries |-> DefaultRetries,
                                delays |-> <<>>]}
     /\ stale' = stale \ {key}
     /\ UNCHANGED <<cacheTTL, now, apiResult, fetched, apiFrame>>

\* post, put, delete: the cache is cleared, then the request is sent.
Mutate(method) ==
  /\ cache' = <<>>
  /\ issued' = issued + 1
  /\ pending' = pending \cup {[method |-> method, key |-> <<>>,
                                req |-> issued + 1, retries |-> DefaultRetries,
                                delays |-> <<>>]}
  /\ fetched' = <<>>
  /\ stale' = stale \cup DOMAIN cache
  /\ UNCHANGED <<cacheTTL, now, apiResult, apiFrame>>

\* uploadMedia: the cache is cleared; the request goes to wpClient.request
\* directly, without the retry of request().
UploadMedia ==
  /\ cache' = <<>>
  /\ issued' = issued + 1
  /\ pending' = pending \cup {[method |-> "POST", key |-> <<>>,
                                req |-> issued + 1, retries |-> 0, delays |-> <<>>]}
  /\ fetched' = <<>>
  /\ stale' = stale \cup DOMAIN cache
  /\ UNCHANGED <<cacheTTL, now, apiResult, apiFrame>>

\* clearCache()
ClearCache ==
  /\ cache' = <<>>
  /\ fetched' = MarkCleared(fetched)
  /\ UNCHANGED <<cacheTTL, now, issued, pending, apiResult, stale, apiFrame>>

\* Mutant: the entry is stored without the lifetime added to its expiry time.
Resolve_NoTTL(r) ==
  /\ r \in pending
  /\ pending' = pending \ {r}
  /\ apiResult' = [value |-> r.req, from |-> "network"]
  /\ IF r.method = "GET"
     THEN /\ cache' = CacheSet(cache, r.key, [data |-> r.req, expires |-> now])
          /\ fetched' = CacheSet(fetched, r.key, [data |-> r.req, at |-> now, cleared |-> FALSE])
     ELSE UNCHANGED <<cache, fetched>>
  /\ UNCHANGED <<cacheTTL, now, issued, stale, apiFrame>>

\* The answer to the request of call r arrives: a get stores it with its
\* expiry time (line 87) and returns it; the other calls return it.
Resolve(r) ==
  /\ r \in pending
  /\ pending' = pending \ {r}
  /\ apiResult' = [value |-> r.req, from |-> "network"]
  /\ IF r.method = "GET"
     THEN /\ cache' = CacheSet(cache, r.key, [data |-> r.req, expires |-> now + cacheTTL])
          /\ fetched' = CacheSet(fetched, r.key, [data |-> r.req, at |-> now, cleared |-> FALSE])
     ELSE UNCHANGED <<cache, fetched>>
  /\ UNCHANGED <<cacheTTL, now, issued, stale, apiFrame>>

\* The retry-after header of a 429 answer: absent, or a number of seconds.
NoRetryAfter == [present |-> FALSE, seconds |-> 0]

RetryAfter(n) == [present |-> TRUE, seconds |-> n]

\* retryAfter ? Number(retryAfter) * 1000 : Math.pow(2, 3 - retries) * 1000
RetryDelay(retryAfter, retries) ==
  IF retryAfter.present THEN retryAfter.seconds * 1000 ELSE (2 ^ (3 - retries)) * 1000

\* request(), lines 188-192: the answer is 429 and retries are left; after
\* the delay the request is sent again with one retry less.
Retry(r, retryAfter) ==
  /\ r \in pending
  /\ r.retries > 0
  /\ issued' = issued + 1
  /\ pending' = (pending \ {r})
                  \cup {[r EXCEPT !.req = issued + 1, !.retries = r.retries - 1,
                                  !.delays = Append(r.delays, RetryDelay(retryAfter, r.retries))]}
  /\ UNCHANGED <<cacheTTL, cache, now, apiResult, fetched, stale, apiFrame>>

\* The statuses a failed request is answered with.
FailStatuses == {429, 500}

\* request(), line 194: a failure that is not a 429 with retries left is
\* thrown to the caller; a get stores nothing.
Reject(r, status) ==
  /\ r \in pending
  /\ ~(status = 429 /\ r.retries > 0)
  /\ pending' = pending \ {r}
  /\ apiResult' = [error |-> r.req, status |-> status]
  /\ UNCHANGED <<cacheTTL, cache, now, issued, fetched, stale, apiFrame>>

\* Time passes.
Tick ==
  /\ now < MaxClock
  /\ now' = now + 1
  /\ UNCHANGED <<cacheTTL, cache, issued, pending, apiResult, fetched, stale, apiFrame>>

\* A call that sends a request can start while the run has requests and
\* waiting places left.
CanSend == issued < MaxRequests /\ Cardinality(pending) < MaxPending

ApiNext ==
  \/ \E path \in ApiPaths, p \in ApiParams : GetHit(path, p)
  \/ \E path \in ApiPaths, p \in ApiParams : CanSend /\ GetMiss(path, p)
  \/ \E method \in {"POST", "PUT", "DELETE"} : CanSend /\ Mutate(method)
  \/ CanSend /\ UploadMedia
  \/ ClearCache
  \/ \E r \in pending : Resolve(r)
  \/ \E r \in pending : issued < MaxRequests /\ Retry(r, NoRetryAfter)
  \/ \E r \in pending, status \in FailStatuses : Reject(r, status)
  \/ Tick

SpecApi == ApiInit /\ [][ApiNext]_vars

\* One caller asks for page after page, each get after the answer to the one
\* before; the clock moves once the cache is above the size limit.
FillGet ==
  /\ pending = {}
  /\ issued < MaxFillKeys
  /\ GetMiss("/wp/v2/posts", Params(<< <<"page", issued + 1>> >>))

FillResolve == \E r \in pending : Resolve(r)

FillTick == Cardinality(DOMAIN cache) > CacheSizeLimit /\ Tick

FillNext == FillGet \/ FillResolve \/ FillTick

SpecFill == ApiInit /\ [][FillNext]_vars

\* One call at a time goes through request(): it is answered with a result,
\* with a 429 (with or without a retry-after header) or with another failure.
RetryAfters == {NoRetryAfter, RetryAfter(1)}

RequestStart ==
  /\ pending = {}
  /\ issued < MaxRetryRequests
  /\ \/ \E path \in ApiPaths, p \in ApiParams : GetMiss(path, p)
     \/ \E method \in {"POST", "PUT", "DELETE"} : Mutate(method)

RequestNext ==
  \/ RequestStart
  \/ \E r \in pending, retryAfter \in RetryAfters : Retry(r, retryAfter)
  \/ \E r \in pending, status \in FailStatuses : Reject(r, status)
  \/ \E r \in pending : Resolve(r)

SpecRequest == ApiInit /\ [][RequestNext]_vars

\* ------------------------------------------------------------ registry.ts
\* PostTypeRegistry: the accepted and the ignored post types.

RegistrySlugs == {"post", "podcast", "wp_block"}

Labels == {"Podcasts", "Shows"}

\* detectNewTypes, line 74: the built-in types that are never reported.
BuiltinTypes ==
  {"attachment", "wp_block", "wp_template", "wp_template_part", "wp_navigation",
   "wp_font_face", "wp_font_family", "wp_global_styles"}

\* obj[key] = value
Put(obj, key, value) ==
  [k \in DOMAIN obj \cup {key} |-> IF k = key THEN value ELSE obj[k]]

\* delete obj[key]
Delete(obj, key) == [k \in DOMAIN obj \ {key} |-> obj[k]]

\* The entries written by acceptType and ignoreType; the date fields
\* (accepted_at, ignored_at) are left out, no code reads them.
AcceptedEntry(label, restBase, woocommerce) ==
  [label |-> label, rest_base |-> restBase, woocommerce |-> woocommerce]

IgnoredEntry(label) == [label |-> label, rest_base |-> ""]

\* The registry files load() may find: accepted and ignored share no slug.
SeedRegistries ==
  {reg \in [accepted : SUBSET RegistrySlugs, ignored : SUBSET RegistrySlugs] :
     reg.accepted \cap reg.ignored = {}}

\* detectNewTypes(wpTypes): the slugs that are neither accepted, nor
\* ignored, nor built-in.
detectNewTypes(types) ==
  {slug \in types :
     /\ ~(slug \in DOMAIN accepted) /\ ~(slug \in DOMAIN ignored)
     /\ ~(slug \in BuiltinTypes)}

registryFrame ==
  <<convVars, enhVars, stripVars, callVars, handlerVars, apiVars, toolVars, feedbackVars,
    postsVars>>

\* Mutant: acceptType without the delete from ignored.
acceptType_KeepsIgnored(slug, label, restBase, woocommerce) ==
  /\ accepted' = Put(accepted, slug, AcceptedEntry(label, restBase, woocommerce))
  /\ UNCHANGED ignored

\* acceptType, lines 88-98.
acceptType(slug, label, restBase, woocommerce) ==
  /\ ignored' = Delete(ignored, slug)
  /\ accepted' = Put(accepted, slug, AcceptedEntry(label, restBase, woocommerce))

\* ignoreType, lines 100-108.
ignoreType(slug, label) ==
  /\ accepted' = Delete(accepted, slug)
  /\ ignored' = Put(ignored, slug, IgnoredEntry(label))

\* new PostTypeRegistry(dataDir): load() reads the file.
RegistryInit ==
  /\ \E reg \in SeedRegistries :
       /\ accepted = [s \in reg.accepted |-> AcceptedEntry("Seed", s, FALSE)]
       /\ ignored = [s \in reg.ignored |-> IgnoredEntry("Seed")]
  /\ lines = <<>> /\ i = 1 /\ pc = "idle" /\ output = <<>> /\ result = <<>>
  /\ ConvIdle /\ EnhIdle /\ StripIdle /\ call = 1 /\ earlier = <<>> /\ HandlerIdle
  /\ ApiIdle /\ ToolIdle /\ FeedbackIdle /\ PostsIdle

AcceptCall ==
  \E slug \in RegistrySlugs, label \in Labels, woocommerce \in BOOLEAN :
    /\ acceptType(slug, label, slug, woocommerce)
    /\ UNCHANGED registryFrame

IgnoreCall ==
  \E slug \in RegistrySlugs, label \in Labels :
    /\ ignoreType(slug, label)
    /\ UNCHANGED registryFrame

RegistryNext == AcceptCall \/ IgnoreCall

SpecRegistry == RegistryInit /\ [][RegistryNext]_vars

\* ----------------------------------------------------------------- tool.ts
\* toolHandler: the pre-flight check and the dispatch to the mode handlers.

ToolModes ==
  {"dashboard", "posts", "products", "settings", "media", "register_types",
   "feedback", "convert"}

\* toolHandler, line 222: the modes that skip the pre-flight check.
SkipPreFlight == {"register_types", "feedback", "convert"}

\* What /wp/v2/types answers for a slug.
TypeInfo ==
  [post |-> [name |-> "Posts", rest_base |-> "posts"],
   podcast |-> [name |-> "Podcasts", rest_base |-> "podcasts"],
   wp_block |-> [name |-> "Patterns", rest_base |-> "blocks"]]

TypesKey == cacheKey("GET", "/wp/v2/types", NoParams)

\* The decisions of one register_types call.
DecisionActions == {"accept", "ignore"}

Decisions ==
  UNION {[1..n -> [slug : RegistrySlugs, action : DecisionActions]] : n \in 1..MaxDecisions}

\* api.get("/wp/v2/types") with the answer arriving at once: the cached
\* listing while it is live, else the site's listing, which is cached; ok
\* is FALSE when the request fails.
TypesGet(c, ok) ==
  IF IsHit(c, TypesKey, now)
  THEN [cache |-> c, result |-> [value |-> c[TypesKey].data, from |-> "cache"]]
  ELSE IF ok
  THEN [cache |-> CacheSet(Purged(c, now), TypesKey,
                           [data |-> wpTypes, expires |-> now + cacheTTL]),
        result |-> [value |-> wpTypes, from |-> "network"]]
  ELSE [cache |-> Purged(c, now), result |-> [error |-> 0, status |-> 500]]

\* The blocking response of preFlightCheck, lines 205-211.
BlockingResponse(newTypes) ==
  [new_post_types_detected |-> TRUE, unknown_types |-> newTypes]

tpcFrame ==
  <<convVars, enhVars, stripVars, callVars, handlerVars, feedbackVars, postsVars>>

\* toolHandler is called: line 222 decides whether the check runs.
ToolCall(m) ==
  /\ tpc \in {"idle", "returned"}
  /\ issued < MaxToolRequests
  /\ mode' = m
  /\ tpc' = IF m \in SkipPreFlight THEN "handler" ELSE "preflight"
  /\ blocked' = [run |-> FALSE]
  /\ toolResponse' = [none |-> TRUE]
  /\ UNCHANGED <<wpTypes, registryVars, apiVars, tpcFrame>>

\* Mutant: the blocking response is not returned.
PreFlight_NeverBlocks(ok) ==
  LET got == TypesGet(cache, ok)
  IN /\ tpc = "preflight"
     /\ cache' = got.cache
     /\ apiResult' = got.result
     /\ issued' = IF got.result = [error |-> 0, status |-> 500] \/ got.result.from = "network"
                  THEN issued + 1 ELSE issued
     /\ blocked' = [run |-> TRUE, value |-> [null |-> TRUE]]
     /\ tpc' = "handler"
     /\ UNCHANGED <<wpTypes, mode, toolResponse, registryVars, cacheTTL, now, pending,
                    fetched, stale, tpcFrame>>

\* preFlightCheck, lines 198-217, and line 224.
PreFlight(ok) ==
  LET got == TypesGet(cache, ok)
      failed == got.result = [error |-> 0, status |-> 500]
      newTypes == IF failed THEN {} ELSE detectNewTypes(got.result.value)
  IN /\ tpc = "preflight"
     /\ cache' = got.cache
     /\ apiResult' = got.result
     /\ issued' = IF failed \/ got.result.from = "network" THEN issued + 1 ELSE issued
     /\ IF newTypes # {}
        THEN /\ blocked' = [run |-> TRUE, value |-> BlockingResponse(newTypes)]
             /\ toolResponse' = BlockingResponse(newTypes)
             /\ tpc' = "returned"
        ELSE /\ blocked' = [run |-> TRUE, value |-> [null |-> TRUE]]
             /\ tpc' = "handler"
             /\ UNCHANGED toolResponse
     /\ UNCHANGED <<wpTypes, mode, registryVars, cacheTTL, now, pending, fetched, stale,
                    tpcFrame>>

RECURSIVE Decide(_, _, _, _)
\* handleRegisterTypes, lines 27-50: the decisions ds[k..] applied to the
\* registry reg with the cache c; an accept asks for the types first, and
\* only the first one can miss the cache (sent counts that request).
Decide(ds, k, reg, c) ==
  IF k > Len(ds) THEN [reg |-> reg, cache |-> c, sent |-> IF c = cache THEN 0 ELSE 1]
  ELSE IF ds[k].action = "accept"
  THEN LET got == [cache |-> IF IsHit(c, TypesKey, now) THEN c
                             ELSE CacheSet(Purged(c, now), TypesKey,
                                           [data |-> wpTypes, expires |-> now + cacheTTL]),
                   types |-> IF IsHit(c, TypesKey, now) THEN c[TypesKey].data ELSE wpTypes]
       IN IF ds[k].slug \in got.types
          THEN Decide(ds, k + 1,
                      [accepted |-> Put(reg.accepted, ds[k].slug,
                                        AcceptedEntry(TypeInfo[ds[k].slug].name,
                                                      TypeInfo[ds[k].slug].rest_base, FALSE)),
                       ignored |-> Delete(reg.ignored, ds[k].slug)],
                      got.cache)
          ELSE Decide(ds, k + 1, reg, got.cache)
  ELSE Decide(ds, k + 1,
              [accepted |-> Delete(reg.accepted, ds[k].slug),
               ignored |-> Put(reg.ignored, ds[k].slug, IgnoredEntry(ds[k].slug))],
              c)

\* toolHandler, line 238: handleRegisterTypes with decisions.
HandleRegisterTypes(ds) ==
  LET done == Decide(ds, 1, [accepted |-> accepted, ignored |-> ignored], cache)
  IN /\ tpc = "handler" /\ mode = "register_types"
     /\ accepted' = done.reg.accepted
     /\ ignored' = done.reg.ignored
     /\ cache' = done.cache
     /\ issued' = issued + done.sent
     /\ toolResponse' = [handled |-> mode]
     /\ tpc' = "returned"
     /\ UNCHANGED <<wpTypes, mode, blocked, cacheTTL, now, pending, apiResult, fetched,
                    stale, tpcFrame>>

\* toolHandler, lines 227-243: the handler of any other mode; mutates is
\* TRUE when it sends a post, put or delete, which clears the cache.
HandleMode(mutates) ==
  /\ tpc = "handler" /\ mode # "register_types"
  /\ cache' = IF mutates THEN <<>> ELSE cache
  /\ toolResponse' = [handled |-> mode]
  /\ tpc' = "returned"
  /\ UNCHANGED <<wpTypes, mode, blocked, registryVars, cacheTTL, now, issued, pending,
                 apiResult, fetched, stale, tpcFrame>>

\* A plugin registers a post type on the site.
InstallPlugin(slug) ==
  /\ ~(slug \in wpTypes)
  /\ wpTypes' = wpTypes \cup {slug}
  /\ UNCHANGED <<mode, tpc, blocked, toolResponse, registryVars, apiVars, tpcFrame>>

\* The server starts with the shipped registry: post is accepted.
ToolInit ==
  /\ wpTypes = {"post"} /\ mode = "" /\ tpc = "idle"
  /\ blocked = [run |-> FALSE] /\ toolResponse = [none |-> TRUE]
  /\ accepted = [s \in {"post"} |-> AcceptedEntry("Posts", "posts", FALSE)]
  /\ ignored = <<>>
  /\ cacheTTL \in CacheTTLs
  /\ cache = <<>> /\ now = 0 /\ issued = 0 /\ pending = {}
  /\ apiResult = [none |-> TRUE] /\ fetched = <<>> /\ stale = {}
  /\ lines = <<>> /\ i = 1 /\ pc = "idle" /\ output = <<>> /\ result = <<>>
  /\ ConvIdle /\ EnhIdle /\ StripIdle /\ call = 1 /\ earlier = <<>> /\ HandlerIdle
  /\ FeedbackIdle /\ PostsIdle

ToolNext ==
  \/ \E m \in ToolModes : ToolCall(m)
  \/ \E ok \in BOOLEAN : PreFlight(ok)
  \/ \E ds \in Decisions : HandleRegisterTypes(ds)
  \/ \E mutates \in BOOLEAN : HandleMode(mutates)
  \/ \E slug \in RegistrySlugs : InstallPlugin(slug)
  \/ Tick

SpecTool == ToolInit /\ [][ToolNext]_vars

\* ------------------------------------------------------------- feedback.ts
\* FeedbackStore: the corrections log.

\* logCorrection, line 64: the longest log that is kept.
CorrectionsLimit == 100

\* array.slice(-n) for n > 0: the last n elements, all of them when the
\* array is shorter.
SliceLast(array, n) ==
  IF Len(array) <= n THEN array ELSE SubSeq(array, Len(array) - n + 1, Len(array))

\* The entry pushed by logCorrection (the date is left out); the calls of a
\* run are told apart by their issue, as in the test ("Issue 0", "Issue 1").
CorrectionEntry(m, action, issue, resolution) ==
  [mode |-> m, action |-> action, issue |-> issue, resolution |-> resolution]

\* getCorrections(limit), lines 70-72.
getCorrections(limit) == SliceLast(corrections_log, limit)

feedbackFrame ==
  <<convVars, enhVars, stripVars, callVars, handlerVars, apiVars, registryVars, toolVars,
    postsVars>>

\* Mutant: the first 100 entries are kept, slice(0, 100).
logCorrection_KeepsOldest(m, action, issue, resolution) ==
  LET pushed == Append(corrections_log, CorrectionEntry(m, action, issue, resolution))
  IN corrections_log' =
       IF Len(pushed) > CorrectionsLimit THEN SubSeq(pushed, 1, CorrectionsLimit) ELSE pushed

\* logCorrection, lines 55-68.
logCorrection(m, action, issue, resolution) ==
  LET pushed == Append(corrections_log, CorrectionEntry(m, action, issue, resolution))
  IN corrections_log' =
       IF Len(pushed) > CorrectionsLimit THEN SliceLast(pushed, CorrectionsLimit) ELSE pushed

\* The log a store wrote before: its last n corrections.
SeedLog(n) == [k \in 1..n |-> CorrectionEntry("posts", "list", k, k)]

\* new FeedbackStore(dataDir): no file, or the file of an earlier run.
FeedbackInit ==
  /\ \E n \in {0, 1, CorrectionsLimit} : corrections_log = SeedLog(n) /\ logged = n
  /\ lines = <<>> /\ i = 1 /\ pc = "idle" /\ output = <<>> /\ result = <<>>
  /\ ConvIdle /\ EnhIdle /\ StripIdle /\ call = 1 /\ earlier = <<>> /\ HandlerIdle
  /\ ApiIdle /\ RegistryIdle /\ ToolIdle /\ PostsIdle

LogCall ==
  /\ logged < MaxLogged
  /\ logCorrection("posts", "list", logged + 1, logged + 1)
  /\ logged' = logged + 1
  /\ UNCHANGED feedbackFrame

FeedbackNext == LogCall

SpecFeedback == FeedbackInit /\ [][FeedbackNext]_vars

\* ----------------------------------------------------------- modes/posts.ts
\* handlePosts, action create: the slug lookup, then the update of the
\* post found or the create. Each call stops at its awaits; the calls share
\* the WordPressAPI cache and the site.

Callers == {1, 2}

PostSlugs == {"hello"}

PostTitles == {"", "Hello"}

\* The collection path of the post type post, and the slug the site derives
\* from a title when the body carries none.
PostsPath == "/wp/v2/posts"

TitleSlug == [Hello |-> "hello"]

\* The lookup query of line 202.
SlugQuery(slug) == Params(<<<<"slug", slug>>, <<"status", "any">>, <<"per_page", 1>>>>)

SlugKey(slug) == cacheKey("GET", PostsPath, SlugQuery(slug))

\* What the site answers to the lookup: the id of the first post with the
\* slug, 0 for an empty list.
FindBySlug(slug) ==
  LET ids == {k \in DOMAIN posts : posts[k].slug = slug /\ posts[k].n = 1}
  IN IF ids = {} THEN 0 ELSE CHOOSE k \in ids : \A j \in ids : k <= j

\* The post the site stores for a create request: a slug in use gets the
\* next free number as its suffix.
NewPost(slug, title) ==
  LET base == IF slug = "" THEN TitleSlug[title] ELSE slug
  IN [slug |-> base, n |-> 1 + Cardinality({k \in DOMAIN posts : posts[k].slug = base})]

NoCall == [pc |-> "idle", title |-> "", slug |-> "", existing |-> 0, hadPost |-> FALSE,
           response |-> [none |-> TRUE]]

postsFrame ==
  <<convVars, enhVars, stripVars, callVars, handlerVars, registryVars, toolVars, feedbackVars>>

\* Lines 201-207 and 251: where the call goes with the lookup result.
AfterLookup(found) == IF found > 0 THEN "update" ELSE "create"

\* create, lines 197-206: the call is made; hadPost records whether the site
\* has a post with the slug at that moment. A run has MaxCreateCalls calls
\* that send a write request.
CreateCall(c, title, slug) ==
  /\ calls[c].pc \in {"idle", "returned"}
  /\ Len(sent) + Cardinality({k \in Callers : calls[k].pc \in {"lookup", "update", "create"}})
       < MaxCreateCalls
  /\ LET started == [NoCall EXCEPT !.title = title, !.slug = slug,
                                     !.hadPost = slug # "" /\ FindBySlug(slug) > 0]
     IN IF title = ""
        THEN /\ calls' = [calls EXCEPT ![c] = [started EXCEPT !.pc = "returned",
                                                 !.response = [error |-> "title required"]]]
             /\ UNCHANGED <<cache, issued>>
        ELSE IF slug = ""
        THEN /\ calls' = [calls EXCEPT ![c] = [started EXCEPT !.pc = "create"]]
             /\ UNCHANGED <<cache, issued>>
        ELSE IF IsHit(cache, SlugKey(slug), now)
        THEN /\ calls' = [calls EXCEPT ![c] =
                            [started EXCEPT !.existing = cache[SlugKey(slug)].data,
                                            !.pc = AfterLookup(cache[SlugKey(slug)].data)]]
             /\ UNCHANGED <<cache, issued>>
        ELSE /\ calls' = [calls EXCEPT ![c] = [started EXCEPT !.pc = "lookup"]]
             /\ cache' = Purged(cache, now)
             /\ issued' = issued + 1
  /\ UNCHANGED <<posts, sent, cacheTTL, now, pending, apiResult, fetched, stale, postsFrame>>

\* The lookup is answered, api.ts line 87 and posts.ts line 207.
LookupAnswer(c) ==
  /\ calls[c].pc = "lookup"
  /\ LET found == FindBySlug(calls[c].slug)
     IN /\ cache' = CacheSet(cache, SlugKey(calls[c].slug),
                             [data |-> found, expires |-> now + cacheTTL])
        /\ calls' = [calls EXCEPT ![c].existing = found, ![c].pc = AfterLookup(found)]
  /\ UNCHANGED <<posts, sent, cacheTTL, now, issued, pending, apiResult, fetched, stale,
                 postsFrame>>

\* Line 228: the write goes to the post found; post() clears the cache.
UpdateSend(c) ==
  /\ calls[c].pc = "update"
  /\ cache' = <<>>
  /\ issued' = issued + 1
  /\ sent' = Append(sent, [call |-> c, id |-> calls[c].existing, slug |-> calls[c].slug])
  /\ calls' = [calls EXCEPT ![c].pc = "updating"]
  /\ UNCHANGED <<posts, cacheTTL, now, pending, apiResult, fetched, stale, postsFrame>>

\* Lines 241-247.
UpdateAnswer(c) ==
  /\ calls[c].pc = "updating"
  /\ calls' = [calls EXCEPT ![c].pc = "returned",
                            ![c].response = [id |-> calls[c].existing, idempotent_hit |-> TRUE]]
  /\ UNCHANGED <<posts, sent, apiVars, postsFrame>>

\* Line 275: the create request goes to the collection path (id 0 in the
\* history); post() clears the cache.
CreateSend(c) ==
  /\ calls[c].pc = "create"
  /\ cache' = <<>>
  /\ issued' = issued + 1
  /\ sent' = Append(sent, [call |-> c, id |-> 0, slug |-> calls[c].slug])
  /\ calls' = [calls EXCEPT ![c].pc = "creating"]
  /\ UNCHANGED <<posts, cacheTTL, now, pending, apiResult, fetched, stale, postsFrame>>

\* Lines 288-294: the site has stored the post.
CreateAnswer(c) ==
  /\ calls[c].pc = "creating"
  /\ posts' = Append(posts, NewPost(calls[c].slug, calls[c].title))
  /\ calls' = [calls EXCEPT ![c].pc = "returned",
                            ![c].response = [id |-> Len(posts) + 1, idempotent_hit |-> FALSE]]
  /\ UNCHANGED <<sent, apiVars, postsFrame>>

\* The site is empty or has the post hello; no call is running.
PostsInit ==
  /\ posts \in {<<>>, <<[slug |-> "hello", n |-> 1]>>}
  /\ calls = [c \in Callers |-> NoCall]
  /\ sent = <<>>
  /\ cacheTTL \in CacheTTLs
  /\ cache = <<>> /\ now = 0 /\ issued = 0 /\ pending = {}
  /\ apiResult = [none |-> TRUE] /\ fetched = <<>> /\ stale = {}
  /\ lines = <<>> /\ i = 1 /\ pc = "idle" /\ output = <<>> /\ result = <<>>
  /\ ConvIdle /\ EnhIdle /\ StripIdle /\ call = 1 /\ earlier = <<>> /\ HandlerIdle
  /\ RegistryIdle /\ ToolIdle /\ FeedbackIdle

PostsNext ==
  \/ \E c \in Callers, title \in PostTitles, slug \in PostSlugs \cup {""} :
       CreateCall(c, title, slug)
  \/ \E c \in Callers :
       LookupAnswer(c) \/ UpdateSend(c) \/ UpdateAnswer(c) \/ CreateSend(c) \/ CreateAnswer(c)
  \/ Tick

SpecPosts == PostsInit /\ [][PostsNext]_vars

\* ================================================================ claims
\* The lines ls hold ls2 as a contiguous run.
ContainsLines(ls, ls2) ==
  \E k \in 0..(Len(ls) - Len(ls2)) : SubSeq(ls, k + 1, k + Len(ls2)) = ls2

RECURSIVE BlockDepth(_, _, _)
\* The nesting depth after the lines k.. of ls, starting at depth d, when ls
\* is block markup: between blocks only blank lines, inside a block any
\* line; -1 when a line between blocks is neither blank nor a block comment.
BlockDepth(ls, k, d) ==
  IF k > Len(ls) THEN d
  ELSE LET l == ls[k]
       IN IF d = 0
          THEN IF l = <<>> THEN BlockDepth(ls, k + 1, 0)
               ELSE IF StartsWith(l, "<!-- wp:")
                    THEN BlockDepth(ls, k + 1, IF EndsWith(l, "/-->") THEN 0 ELSE 1)
               ELSE -1
          ELSE IF StartsWith(l, "<!-- wp:") /\ ~EndsWith(l, "/-->")
               THEN BlockDepth(ls, k + 1, d + 1)
               ELSE IF StartsWith(l, "<!-- /wp:") THEN BlockDepth(ls, k + 1, d - 1)
               ELSE BlockDepth(ls, k + 1, d)

\* ls is valid structured-block markup: a sequence of self-closing blocks
\* and balanced open ... close regions, separated by blank lines or nothing.
ValidBlockMarkup(ls) == BlockDepth(ls, 1, 0) = 0

\* C1: for every input that is already valid structured-block markup,
\* converting the converted text again gives the converted text: the second
\* conversion adds no wrapping and changes nothing.
C1_PassthroughIdempotent ==
  (pc = "done" /\ ValidBlockMarkup(lines)) => markdownToGutenberg(result) = result

\* C1 witness: a region with markdown-looking content and a self-closing
\* block were converted; the result is the blocks themselves.
C1_Witness ==
  /\ pc = "done"
  /\ lines = <<LWpOpen, LPara, LWpClose, LWpSelf>>
  /\ result = lines

\* The parser modes that are open.
ActiveModes ==
  {m \in {"code", "list", "table", "blockquote", "passthrough", "shortcode"} :
     \/ m = "code" /\ inCode
     \/ m = "list" /\ inList
     \/ m = "table" /\ inTable
     \/ m = "blockquote" /\ inBlockquote
     \/ m = "passthrough" /\ inGutenbergBlock > 0
     \/ m = "shortcode" /\ inShortcode}

\* C2: at every step of a run at most one parser mode is open.
C2_OneModeActive == Cardinality(ActiveModes) <= 1

\* A fragment without the blank line pushed after it.
Body(fragment) == SubSeq(fragment, 1, Len(fragment) - 1)

\* C3: when the input ends inside an open code fence, the buffered code
\* lines are in the returned text as a code fragment.
C3_UnterminatedFenceFlushed ==
  (pc = "done" /\ inCode /\ \E k \in 1..Len(codeLines) : codeLines[k] # <<>>) =>
    ContainsLines(result, Body(CodeFragment(codeLines)))

\* C4: by the time the function returns no mode holds a buffered line any
\* more: every line buffered in a mode, passthrough and shortcode included,
\* has been emitted.
C4_EveryModeFlushed ==
  pc = "done" =>
    /\ gutenbergLines = <<>>
    /\ shortcodeLines = <<>>
    /\ inCode => codeLines = <<>>
    /\ listItems = <<>> /\ tableHeaderRow = <<>> /\ blockquoteLines = <<>>

\* The loop is about to dispatch a blank line.
BlankStep == pc = "loop" /\ i <= Len(lines) /\ IsBlank(lines[i])

\* C5 as claimed: a blank line closes an open list and leaves an open table,
\* blockquote, passthrough region, shortcode buffer and code fence open with
\* their buffers unchanged.
C5_BlankFlushesListOnly ==
  [][BlankStep =>
       /\ ~inList'
       /\ UNCHANGED <<inTable, tableHeaderRow, tableDataRows>>
       /\ UNCHANGED <<inBlockquote, blockquoteLines>>
       /\ UNCHANGED <<inGutenbergBlock, gutenbergLines>>
       /\ UNCHANGED <<inShortcode, shortcodeTag, shortcodeLines>>
       /\ UNCHANGED <<inCode, codeLines>>]_vars

\* C5 as amended: inside an open passthrough region, code fence or shortcode
\* buffer a blank line is appended to that buffer, the mode stays open and
\* nothing is emitted; outside them it closes an open table, an open
\* blockquote and an open list, emitting the fragment of the one that was
\* open.
C5_BlankLineEffect ==
  [][BlankStep =>
       IF inGutenbergBlock > 0
       THEN /\ gutenbergLines' = Append(gutenbergLines, lines[i])
            /\ UNCHANGED <<inGutenbergBlock, output, inCode, codeLines, inShortcode,
                           shortcodeTag, shortcodeLines, inList, listItems, inTable,
                           tableHeaderRow, tableDataRows, inBlockquote,
                           blockquoteLines>>
       ELSE IF inCode
       THEN /\ codeLines' = Append(codeLines, lines[i])
            /\ UNCHANGED <<inCode, output, inGutenbergBlock, gutenbergLines,
                           inShortcode, shortcodeTag, shortcodeLines, inList,
                           listItems, inTable, tableHeaderRow, tableDataRows,
                           inBlockquote, blockquoteLines>>
       ELSE IF inShortcode
       THEN /\ shortcodeLines' = Append(shortcodeLines, lines[i])
            /\ UNCHANGED <<inShortcode, shortcodeTag, output, inGutenbergBlock,
                           gutenbergLines, inCode, codeLines, inList, listItems,
                           inTable, tableHeaderRow, tableDataRows, inBlockquote,
                           blockquoteLines>>
       ELSE /\ ~inList' /\ ~inTable' /\ ~inBlockquote'
            /\ output' = output
                 \o (IF inTable THEN TableFragment(tableHeaderRow, tableDataRows)
                     ELSE <<>>)
                 \o (IF inBlockquote THEN QuoteFragment(blockquoteLines) ELSE <<>>)
                 \o (IF inList THEN ListFragment(listOrdered, listItems) ELSE <<>>)
            /\ UNCHANGED <<inGutenbergBlock, gutenbergLines, inCode, codeLines,
                           inShortcode, shortcodeTag, shortcodeLines>>]_vars

\* C5 witness: a blank line met an open table and closed it.
C5_Witness ==
  /\ pc = "loop" /\ i = 4
  /\ SubSeq(lines, 1, 3) = <<LRow, LRow, LBlank>>
  /\ ~inTable
  /\ output = TableFragment(parseTableRow(LRow), <<parseTableRow(LRow)>>)

\* C6: while a passthrough region is open its buffer is the input lines from
\* the opening "<!-- wp:" line on, and at the step where the depth returns to
\* zero exactly those input lines, the closing line included, are appended
\* to the output, unchanged and in order.
C6_PassthroughVerbatim ==
  /\ [](inGutenbergBlock > 0 =>
          /\ Len(gutenbergLines) < i
          /\ gutenbergLines = SubSeq(lines, i - Len(gutenbergLines), i - 1)
          /\ IsWpOpen(gutenbergLines[1]) /\ ~IsSelfClosing(gutenbergLines[1]))
  /\ [][(pc = "loop" /\ inGutenbergBlock > 0 /\ inGutenbergBlock' = 0) =>
          output' = output \o SubSeq(lines, i - Len(gutenbergLines), i)]_vars

\* C6 witness: a region holding a markdown-looking line and a blank line has
\* just been closed and emitted as it was.
C6_Witness ==
  /\ pc = "loop" /\ i = 5
  /\ lines = <<LWpOpen, LPara, LBlank, LWpClose>>
  /\ inGutenbergBlock = 0
  /\ output = lines

RECURSIVE TruePrefixLen(_)
\* The length of the longest prefix of TRUEs of a sequence of booleans.
TruePrefixLen(bs) ==
  IF bs = <<>> \/ ~bs[1] THEN 0 ELSE 1 + TruePrefixLen(Tail(bs))

\* The length of the longest prefix of ls whose lines all satisfy P.
PrefixLen(ls, P(_)) == TruePrefixLen([k \in 1..Len(ls) |-> P(ls[k])])

RECURSIVE ListRuns(_)
\* The list fragments of a text made of list items only: one fragment for
\* each maximal run of items of one kind, holding the run's items in order.
ListRuns(ls) ==
  IF ls = <<>> THEN <<>>
  ELSE LET n    == IF IsUl(ls[1]) THEN PrefixLen(ls, IsUl) ELSE PrefixLen(ls, IsOl)
           run  == SubSeq(ls, 1, n)
           items == [k \in 1..n |-> IF IsUl(ls[1]) THEN UlText(run[k]) ELSE OlText(run[k])]
       IN ListFragment(~IsUl(ls[1]), items) \o ListRuns(SubSeq(ls, n + 1, Len(ls)))

\* The loop is about to dispatch a list item of the kind the open list is not.
ListSwitchStep ==
  /\ pc = "loop" /\ i <= Len(lines) /\ inList
  /\ IF listOrdered THEN IsUl(lines[i]) ELSE IsOl(lines[i])

\* C7: a list item of the other kind than the open list flushes the open
\* list, as a fragment of its own kind holding its items, and starts a new
\* list with that item alone; a text of list items gives one fragment for
\* each maximal run of one kind, items in input order, never a mixed list.
C7_ListSwitchFlushes ==
  /\ []((pc = "done" /\ \A k \in 1..Len(lines) : IsUl(lines[k]) \/ IsOl(lines[k]))
          => result = ResultLines(ListRuns(lines)))
  /\ [][ListSwitchStep =>
          /\ output' = output \o ListFragment(listOrdered, listItems)
          /\ inList' /\ listOrdered' = ~listOrdered
          /\ listItems' = <<IF listOrdered THEN UlText(lines[i]) ELSE OlText(lines[i])>>]_vars

\* C7 witness: an ordered item followed two unordered ones; the unordered
\* list is out as its own fragment and the open list holds the ordered item.
C7_Witness ==
  /\ pc = "loop" /\ i = 4
  /\ SubSeq(lines, 1, 3) = <<LUl, LUl, LOl>>
  /\ output = ListFragment(FALSE, <<<<"a">>, <<"a">>>>)
  /\ inList /\ listOrdered /\ listItems = <<<<"b">>>>

RECURSIVE TableRuns(_)
\* The fragments of a text made of pipe lines, blank lines and plain
\* paragraphs: one table for each maximal run of pipe lines, its first line
\* the header, its separator rows skipped, its other lines the body rows.
TableRuns(ls) ==
  IF ls = <<>> THEN <<>>
  ELSE IF IsTableRow(ls[1])
  THEN LET n    == PrefixLen(ls, IsTableRow)
           body == SelectSeq(SubSeq(ls, 2, n), LAMBDA l : ~isTableSeparator(l))
       IN TableFragment(parseTableRow(ls[1]),
                        [k \in 1..Len(body) |-> parseTableRow(body[k])])
          \o TableRuns(SubSeq(ls, n + 1, Len(ls)))
  ELSE IF ls[1] = LBlank THEN TableRuns(Tail(ls))
  ELSE << <<"<!-- wp:", "paragraph", " -->">>,
          <<"<p>">> \o inlineFormat(ls[1]) \o <<"</p>">>,
          <<"<!-- /wp:", "paragraph", " -->">>, <<>> >>
       \o TableRuns(Tail(ls))

\* The number of lines of ls that start a table fragment.
TableCount(ls) ==
  Cardinality({k \in 1..Len(ls) : ls[k] = <<"<!-- wp:", "table", " -->">>})

\* The loop is about to dispatch a line while a table is open.
TableOpenStep == pc = "loop" /\ i <= Len(lines) /\ inTable

\* C8: each maximal run of pipe lines gives exactly one table fragment with
\* one header row.  A pipe line met while a table is open is skipped when it
\* is a separator row and is appended as a body row otherwise, and emits
\* nothing; the first non-pipe line closes the table and emits its fragment;
\* a text of pipe lines, blank lines and plain paragraphs gives one table for
\* each run, the run's first line its header and its other non-separator
\* lines its body rows in order.
C8_OneTablePerRun ==
  /\ []((pc = "done"
          /\ \A k \in 1..Len(lines) : IsTableRow(lines[k]) \/ lines[k] \in {LBlank, LPara})
          => result = ResultLines(TableRuns(lines)))
  /\ [][TableOpenStep =>
          IF IsTableRow(lines[i])
          THEN /\ inTable' /\ output' = output /\ tableHeaderRow' = tableHeaderRow
               /\ tableDataRows' = IF isTableSeparator(lines[i]) THEN tableDataRows
                                   ELSE Append(tableDataRows, parseTableRow(lines[i]))
          ELSE /\ ~inTable'
               /\ Len(output') >= Len(output) + 4
               /\ SubSeq(output', 1, Len(output) + 4)
                    = output \o TableFragment(tableHeaderRow, tableDataRows)]_vars

\* C8 witness: header, separator, body row and a paragraph gave one table
\* with one body row, then the paragraph.
C8_Witness ==
  /\ pc = "done"
  /\ lines = <<LRow, LSep, LRow, LPara>>
  /\ TableCount(result) = 1
  /\ ContainsLines(result, Body(TableFragment(<<<<"a">>>>, <<<<<<"a">>>>>>)))

\* ------------------------------------------------------------------- C9
\* The opening tokens of the nine recognized hint kinds.
HintMarkers ==
  {"<!-- @click-to-tweet", "<!-- @protip", "<!-- @discount", "<!-- @faq",
   "<!-- @key-takeaways", "<!-- @jump-links", "<!-- @data-lab",
   "<!-- @product-roundup", "<!-- @cta"}

\* C9: for every input and every recognized hint kind, the text returned by
\* enhanceHints holds no literal  <!-- @<kind>  .
C9_NoHintMarkerInOutput ==
  pc = "hintsDone" =>
    \A k \in 1..Len(result) : \A t \in HintMarkers : ~Has(result[k], t)

\* ------------------------------------------------------------------ C10
\* No token of line belongs to the hint syntax.
IsPlainLine(line) ==
  \A k \in 1..Len(line) :
    line[k] \notin HintMarkers \cup {"<!-- @end", "<!-- @end-product"}

\* line is a CTA marker line: it passes the CTA test and none of the tests
\* for an opening marker that precede it.
IsCtaLine(line) == HasThenSpace(line, "<!-- @cta") /\ ~OpensHint(line)

\* The step taken on a CTA line while no hint is open appends the five lines
\* of one CTA fragment to the output and leaves no hint open and nothing
\* buffered.
CtaEmitsAndStaysClosed ==
  (pc = "hints" /\ i <= Len(lines) /\ IsCtaLine(lines[i]) /\ inBlock = "") =>
    /\ \E ids \in [1..2 -> Uids] : output' = output \o genCta(lines[i], ids)
    /\ inBlock' = "" /\ blockBuf' = <<>> /\ blockAttrs' = blockAttrs

\* A text of plain lines around one CTA line comes back as the same plain
\* lines around one CTA fragment.
CtaAmongPlainLines ==
  (pc = "hintsDone" /\ \E k \in 1..Len(lines) :
     IsCtaLine(lines[k]) /\ \A j \in (1..Len(lines)) \ {k} : IsPlainLine(lines[j])) =>
    LET k == CHOOSE x \in 1..Len(lines) : IsCtaLine(lines[x])
    IN \E ids \in [1..2 -> Uids] :
         result = SubSeq(lines, 1, k - 1) \o genCta(lines[k], ids)
                    \o SubSeq(lines, k + 1, Len(lines))

\* C10: a CTA line met while no hint is open emits exactly one CTA fragment
\* at that position and leaves the hint state at none; the lines after it are
\* copied to the output, with no end marker needed.
C10_CtaSelfClosing == []CtaAmongPlainLines /\ [][CtaEmitsAndStaysClosed]_vars

C10_Witness ==
  /\ pc = "hintsDone"
  /\ lines = <<EText, ECta, EText>>
  /\ result = <<EText>> \o genCta(ECta, <<"u1", "u2">>) \o <<EText>>

\* ------------------------------------------------------------------ C11
\* line holds an end marker of either form.
ClosesHint(line) ==
  HasPair(line, "<!-- @end", " -->") \/ HasPair(line, "<!-- @end-product", " -->")

\* The text is plain lines, then an opening marker at line k, then lines
\* none of which holds an end marker.
UnterminatedAt(ls, k) ==
  /\ k \in 1..Len(ls)
  /\ \A j \in 1..(k - 1) : IsPlainLine(ls[j])
  /\ OpensHint(ls[k])
  /\ \A j \in (k + 1)..Len(ls) : ~ClosesHint(ls[j])

\* The returned text is the plain lines before the opening marker: the marker
\* line and everything after it are absent and no fragment was generated.
UnterminatedHintDropped ==
  (pc = "hintsDone" /\ \E k \in 1..Len(lines) : UnterminatedAt(lines, k)) =>
    LET k == CHOOSE x \in 1..Len(lines) : UnterminatedAt(lines, x)
    IN result = JoinedLines(SubSeq(lines, 1, k - 1)) /\ inBlock # ""

\* A step that starts and ends with a hint open adds nothing to the output,
\* and the return adds nothing either.
OpenHintEmitsNothing ==
  /\ (pc = "hints" /\ inBlock # "" /\ inBlock' # "") => output' = output
  /\ (pc = "hints" /\ pc' = "hintsDone") => result' = JoinedLines(output)

\* C11: when a hint is opened and the input ends before its close marker, the
\* opening marker line and every line buffered after it are dropped: none of
\* them is in the output and no fragment is generated for the hint.
C11_UnterminatedHintDropped == []UnterminatedHintDropped /\ [][OpenHintEmitsNothing]_vars

C11_Witness ==
  /\ pc = "hintsDone"
  /\ lines = <<EText, EProTip, EBullet>>
  /\ inBlock = "protip" /\ blockBuf = <<EBullet>>
  /\ result = <<EText>>

\* ------------------------------------------------------------------ C12
\* C12: enhanceHints(x) equals x for every input x that holds no hint marker:
\* every line is copied to the output unchanged and in order.
C12_NoMarkerUnchanged ==
  (pc = "hintsDone" /\ \A k \in 1..Len(lines) : IsPlainLine(lines[k])) => result = lines

C12_Witness ==
  /\ pc = "hintsDone"
  /\ lines = <<EQuestion, LBlank, EText>>
  /\ result = <<EQuestion, LBlank, EText>>

\* ------------------------------------------------------------------ C17
\* line is an H2-H6 heading that ends with the suffix {.c}, c one token.
EndsWithClassSuffix(line) ==
  /\ IsHeading(line) /\ Len(line) >= 6
  /\ line[Len(line) - 2] = "{." /\ line[Len(line)] = "}"
  /\ line[Len(line) - 1] \notin {"}", " "}

\* The heading text in front of the suffix.
TextBeforeSuffix(line) == Trim(SubSeq(line, 3, Len(line) - 3))

\* The opening comment names the class in its attributes.
AttrsCarryClass(comment, c) ==
  \E k \in 1..Len(comment) :
    k + 2 <= Len(comment) /\ comment[k] = "\"className\":\""
      /\ comment[k + 1] = c /\ comment[k + 2] = "\""

\* The element line: the h tag with wp-block-heading and the class in its
\* class list, then the formatted text in front of the suffix, then the
\* closing tag.
ElementCarriesClass(el, line) ==
  LET lvl == LevelTok(HashLevel(line[1]))
  IN el = <<"<h", lvl, " class=\"", "wp-block-heading", " ", line[Len(line) - 1], "\">">>
            \o inlineFormat(TextBeforeSuffix(line)) \o <<"</h", lvl, ">">>

\* The step on such a heading line, met outside passthrough, code fence and
\* shortcode, ends the output with the heading fragment.
HeadingClassStep ==
  (pc = "loop" /\ i <= Len(lines) /\ EndsWithClassSuffix(lines[i])
     /\ inGutenbergBlock = 0 /\ ~inCode /\ ~inShortcode) =>
    LET n == Len(output')
    IN /\ n >= 4
       /\ StartsWith(output'[n - 3], "<!-- wp:") /\ output'[n - 3][2] = "heading"
       /\ AttrsCarryClass(output'[n - 3], lines[i][Len(lines[i]) - 1])
       /\ ElementCarriesClass(output'[n - 2], lines[i])
       /\ output'[n - 1] = <<"<!-- /wp:", "heading", " -->">>
       /\ output'[n] = <<>>

\* C17: for an H2-H6 heading line that ends with a {.classname} suffix, the
\* visible text of the emitted heading fragment holds no part of the suffix
\* and the fragment carries the class name in its attributes and in the
\* class list of the element.
C17_HeadingClassSuffix == [][HeadingClassStep]_vars

C17_Witness ==
  /\ pc = "done"
  /\ lines = <<LHeading2>>
  /\ result = << <<"<!-- wp:", "heading", " ", "{", "\"className\":\"", "y", "\"", "}", " -->">>,
                 <<"<h", "2", " class=\"", "wp-block-heading", " ", "y", "\">",
                   "<strong>", "b", "</strong>", "</h", "2", ">">>,
                 <<"<!-- /wp:", "heading", " -->">> >>

\* ------------------------------------------------------------------ C13
\* line starts, after its leading whitespace, with a preamble or postamble
\* phrase.
HasAiPhrase(line) ==
  LET lower == Lower(line)
  IN lower # <<>> /\ lower[1] \in PREAMBLE_PREFIXES \cup POSTAMBLE_PREFIXES

\* The text starts with a heading line and no line of it holds a phrase.
CleanHeadingText(ls) ==
  /\ Len(ls[1]) >= 2 /\ ls[1][2] = " "
  /\ ls[1][1] \in {"#", "##", "###", "####", "#####", "######"}
  /\ \A k \in 1..Len(ls) : ~HasAiPhrase(ls[k])

\* C13 as stated: for every input x that starts with a heading line and
\* holds no preamble or postamble phrase, stripAiCommentary(x) equals x.
C13_CleanTextUnchanged ==
  (pc = "stripped" /\ CleanHeadingText(lines)) => result = lines

\* line is blank, whitespace only, or a divider.
IsBlankOrDivider(line) == Trim(line) = <<>> \/ Trim(line) = <<"---">>

\* The last line of ls that is neither blank nor a divider.
LastContentLine(ls) ==
  CHOOSE m \in 1..Len(ls) :
    ~IsBlankOrDivider(ls[m]) /\ \A j \in (m + 1)..Len(ls) : IsBlankOrDivider(ls[j])

\* ls without the whitespace after its last line.
TrimOuter(ls) == SubSeq(ls, 1, Len(ls) - 1) \o << TrimEnd(ls[Len(ls)]) >>

\* C13 as amended: for such an input the result is x without its trailing
\* blank and divider lines and without whitespace at its end; it is x itself
\* when x ends with a content line that has no whitespace at its end.
C13_CleanTextKept ==
  (pc = "stripped" /\ CleanHeadingText(lines)) =>
    /\ result = TrimOuter(SubSeq(lines, 1, LastContentLine(lines)))
    /\ (/\ ~IsBlankOrDivider(lines[Len(lines)])
        /\ TrimEnd(lines[Len(lines)]) = lines[Len(lines)]) => result = lines

C13_Witness ==
  /\ pc = "stripped"
  /\ lines = <<SHeading, LBlank, SPara, SDivider>>
  /\ result = <<SHeading, LBlank, SPara>>

\* ------------------------------------------------------------------ C14
\* The second invocation has returned.
SecondReturned == call = 2 /\ pc \in {"done", "hintsDone", "stripped"}

\* C14 as stated: each stage is a pure function of its input text; two
\* invocations on the same input return the same output.
C14_SameOutputTwice == SecondReturned => result = earlier

\* Two texts are equal but for the tokens generateUniqueId returned.
SameUpToIds(a, b) ==
  /\ Len(a) = Len(b)
  /\ \A k \in 1..Len(a) :
       /\ Len(a[k]) = Len(b[k])
       /\ \A j \in 1..Len(a[k]) :
            a[k][j] = b[k][j] \/ (a[k][j] \in Uids /\ b[k][j] \in Uids)

\* C14 as amended: stripAiCommentary and markdownToGutenberg return the same
\* text on both invocations; the two texts enhanceHints returns are equal but
\* for the generated identifiers; the second invocation starts from the same
\* local state as the first.
C14_SameOutputUpToIds ==
  /\ (SecondReturned /\ pc \in {"done", "stripped"}) => result = earlier
  /\ (SecondReturned /\ pc = "hintsDone") => SameUpToIds(result, earlier)
  /\ (call = 2 /\ i = 1 /\ pc \in {"loop", "hints"}) =>
       ConvIdle /\ EnhIdle /\ output = <<>>

C14_Witness ==
  /\ SecondReturned /\ pc = "hintsDone"
  /\ lines = <<ECta, EText>>
  /\ earlier = genCta(ECta, <<"u1", "u2">>) \o <<EText>>
  /\ result = genCta(ECta, <<"u2", "u1">>) \o <<EText>>

\* ------------------------------------------------------------------ C15
\* The request passed the content check.
Accepted == params.content # << <<>> >>

\* The response is the conversion of the enhanced (when enhance is set)
\* stripped (when strip_ai_commentary is set) content of the request.
StagesComposed ==
  (hpc = "returned" /\ Accepted) =>
    \E stripped \in {IF params.strip_ai_commentary
                      THEN stripAiCommentary(params.content) ELSE params.content} :
      \E enhanced \in (IF params.enhance THEN enhanceHints(stripped) ELSE {stripped}) :
        response = [content |-> markdownToGutenberg(enhanced)]

\* The statements run in the order strip, enhance, convert, and each works
\* on the content the one before it left.
StagesInOrder ==
  /\ hpc' # hpc =>
       <<hpc, hpc'>> \in {<<"entry", "strip">>, <<"entry", "returned">>,
                          <<"strip", "enhance">>, <<"enhance", "convert">>,
                          <<"convert", "returned">>}
  /\ (hpc = "strip" /\ hpc' # hpc) =>
       content' = (IF params.strip_ai_commentary THEN stripAiCommentary(content)
                   ELSE content)
  /\ (hpc = "enhance" /\ hpc' # hpc) =>
       IF params.enhance THEN content' \in enhanceHints(content) ELSE content' = content
  /\ (hpc = "convert" /\ hpc' # hpc) => content' = markdownToGutenberg(content)

StageReturned == pc \in {"done", "hintsDone", "stripped"}

\* The steps a running call has left at most: the lines still to read and
\* the return; for stripAiCommentary the lines of both scans.
StepsLeft ==
  IF StageReturned THEN 0
  ELSE IF pc \in {"loop", "hints"} THEN Len(lines) + 2 - i
  ELSE IF pc = "stripTop" THEN 2 * Len(lines) + 4 - i
  ELSE IF pc = "stripBottom" THEN i + 2
  ELSE 1

\* The guards of the steps: a loop iteration or the loop exit of the two
\* forward loops, and the three positions of stripAiCommentary.
CanStep ==
  \/ pc \in {"loop", "hints"} /\ i \in 1..Len(lines) + 1
  \/ pc = "stripTop" /\ i \in 1..Len(lines) + 1
  \/ pc = "stripBottom" /\ i \in 0..Len(lines)
  \/ pc = "stripReturn"

\* A call that has not returned can take a step, every step brings the
\* return nearer, and what is returned is a text (at least one line).
StageRuns == StepsLeft \in Nat /\ (~StageReturned => CanStep)

StageAdvances == StepsLeft' < StepsLeft

ReturnsText == StageReturned => Len(result) >= 1

\* The line index of the running stage never moves backwards.
IndexForward == i' >= i

\* C16 as stated: each of the three stages terminates after one forward pass
\* over the lines and returns a text: the call runs to its return, and until
\* then the line index never decreases.
C16_OneForwardPass ==
  /\ [](StageRuns /\ ReturnsText)
  /\ [][StageAdvances /\ IndexForward]_vars

\* A step of markdownToGutenberg or enhanceHints: the index moves to the next
\* line, or the loop is over and the function returns.
ForwardPassStep ==
  pc \in {"loop", "hints"} =>
    \/ i <= Len(lines) /\ i' = i + 1 /\ pc' = pc
    \/ i = Len(lines) + 1 /\ i' = i /\ pc' \in {"done", "hintsDone"}

\* A step of stripAiCommentary: the first scan moves down from the top or
\* hands over to the second scan at the last line; the second scan moves up
\* from the bottom, never above firstReal - 1, or ends; then the return.
StripScanStep ==
  /\ pc = "stripTop" =>
        \/ i <= Len(lines) /\ i' = i + 1 /\ pc' = "stripTop"
        \/ i' = Len(lines) /\ pc' = "stripBottom"
  /\ pc = "stripBottom" =>
        \/ i >= firstReal /\ i' = i - 1 /\ pc' = "stripBottom"
        \/ i' = i /\ pc' = "stripReturn"
  /\ pc = "stripReturn" => i' = i /\ pc' = "stripped"

\* C16 as amended: every call runs to its return within 2 * lines + 3 steps
\* and returns a text; markdownToGutenberg and enhanceHints reach the return
\* after one forward pass (index + 1 at every step), stripAiCommentary after
\* one scan down from the top followed by one scan up from the bottom.
C16_StagesTerminate ==
  /\ [](StageRuns /\ ReturnsText)
  /\ [][StageAdvances /\ ForwardPassStep /\ StripScanStep]_vars

\* C16 witness: stripAiCommentary has returned after its scan down stopped at
\* the heading and its scan up passed the divider.
C16_Witness ==
  /\ pc = "stripped"
  /\ lines = <<SPreamble, SHeading, SDivider>>
  /\ firstReal = 2 /\ lastReal = 2 /\ i = 2
  /\ result = <<SHeading>>

\* ---------------------------------------------------------------------------
\* C18: a get within the TTL of a successful fetch is served from the cache.

\* A get(path, p) call starts: it returns from the cache or sends a request.
GetCall(path, p) == GetHit(path, p) \/ GetMiss(path, p)

\* The path and these params (in any property order) were fetched
\* successfully less than cacheTTL ago, with no post, put, delete or
\* uploadMedia call since.
FetchedRecently(path, p) ==
  \E k \in DOMAIN fetched :
    /\ k[2] = path /\ SameParams(Params(k[3]), p)
    /\ now - fetched[k].at < cacheTTL

ServedFromCache == issued' = issued /\ pending' = pending /\ apiResult'.from = "cache"

\* C18 as stated: a get for a path and params that were fetched successfully
\* less than the TTL ago, with no post, put, delete or uploadMedia call in
\* between, returns the cached data and issues no network request.
C18_CachedWithinTTL ==
  [][\A path \in ApiPaths, p \in ApiParams :
       (FetchedRecently(path, p) /\ GetCall(path, p)) => ServedFromCache]_vars

\* The same cache key was fetched successfully less than cacheTTL ago, and no
\* post, put, delete, uploadMedia or clearCache call was made since.
FetchedSameKey(path, p) ==
  LET key == cacheKey("GET", path, p)
  IN /\ key \in DOMAIN fetched
     /\ ~fetched[key].cleared
     /\ now - fetched[key].at < cacheTTL

\* C18 as amended: a get whose path and serialised params (JSON.stringify,
\* property order included) were fetched successfully less than the TTL ago,
\* with no post, put, delete, uploadMedia or clearCache call in between,
\* returns the data of that fetch and issues no network request.
C18_CachedKeyWithinTTL ==
  [][\A path \in ApiPaths, p \in ApiParams :
       (FetchedSameKey(path, p) /\ GetCall(path, p)) =>
         /\ ServedFromCache
         /\ apiResult'.value = fetched[cacheKey("GET", path, p)].data]_vars

\* C18 witness: the response fetched at time 0 is returned from the cache at
\* time 1 under a TTL of 2, after one network request in all.
C18_Witness ==
  /\ apiResult = [value |-> 1, from |-> "cache"]
  /\ cacheTTL = 2 /\ now = 1 /\ issued = 1 /\ pending = {}
  /\ fetched = (cacheKey("GET", "/wp/v2/posts", Params(<<PPage, PPerPage>>))
                 :> [data |-> 1, at |-> 0, cleared |-> FALSE])

\* ---------------------------------------------------------------------------
\* C19: post, put and delete clear the cache.

\* C19: every post, put and delete call clears the whole cache, and the first
\* get issued after the call for a key that was cached before it sends a new
\* network request.
C19_GetAfterMutationRefetches ==
  /\ [][(\E method \in {"POST", "PUT", "DELETE"} : Mutate(method)) => cache' = <<>>]_vars
  /\ [][\A path \in ApiPaths, p \in ApiParams :
          (cacheKey("GET", path, p) \in stale /\ GetCall(path, p))
            => issued' = issued + 1]_vars

\* ---------------------------------------------------------------------------
\* C20: the size of the cache.

\* C20: after any sequence of get calls the cache holds at most 1000 entries.
C20_AtMostLimitEntries == Cardinality(DOMAIN cache) <= CacheSizeLimit

\* ---------------------------------------------------------------------------
\* C21: the retry of request().

\* The network requests sent so far for the call r.
Attempts(r) == 1 + Len(r.delays)

\* C21: a request that keeps receiving 429 is attempted at most 3 times in
\* total before the error is propagated.
C21_AtMostThreeAttempts == \A r \in pending : Attempts(r) <= 3

\* ---------------------------------------------------------------------------
\* C22: accepted and ignored share no slug.

Disjoint == DOMAIN accepted \cap DOMAIN ignored = {}

\* The entries of every slug but s are what they were.
OthersUnchanged(s) ==
  /\ DOMAIN accepted' \ {s} = DOMAIN accepted \ {s}
  /\ DOMAIN ignored' \ {s} = DOMAIN ignored \ {s}
  /\ \A t \in DOMAIN accepted \ {s} : accepted'[t] = accepted[t]
  /\ \A t \in DOMAIN ignored \ {s} : ignored'[t] = ignored[t]

NowAccepted(s) == s \in DOMAIN accepted' /\ ~(s \in DOMAIN ignored')

NowIgnored(s) == s \in DOMAIN ignored' /\ ~(s \in DOMAIN accepted')

\* C22: from a registry whose accepted and ignored sets are disjoint, every
\* acceptType or ignoreType call leaves them disjoint: it puts one slug into
\* one set and out of the other, and leaves the entries of the other slugs
\* as they were.
C22_AcceptIgnoreExclusive ==
  [][Disjoint =>
       /\ Disjoint'
       /\ \E s \in RegistrySlugs :
            (NowAccepted(s) \/ NowIgnored(s)) /\ OthersUnchanged(s)]_vars

\* A slug seeded as ignored was accepted, one seeded as accepted was
\* ignored, next to a seeded entry that was left alone.
C22_Witness ==
  /\ "podcast" \in DOMAIN accepted /\ accepted["podcast"].label = "Podcasts"
  /\ "post" \in DOMAIN ignored /\ ignored["post"].label = "Shows"
  /\ "wp_block" \in DOMAIN ignored /\ ignored["wp_block"].label = "Seed"

\* ---------------------------------------------------------------------------
\* C23: the pre-flight check of toolHandler.

\* The step hands the call to its mode handler.
EntersHandler == tpc # "handler" /\ tpc' = "handler"

\* A call of a mode outside exempt reaches its handler from the check only.
PreFlightFirst(exempt) == EntersHandler => (mode' \in exempt \/ tpc = "preflight")

\* The listing the check got holds a slug that is neither accepted, nor
\* ignored, nor built-in.
ListingHasNewType ==
  /\ "value" \in DOMAIN apiResult'
  /\ detectNewTypes(apiResult'.value) # {}

\* The check ends with the blocking response and no handler when the listing
\* has a new type, and with the handler when it has none.
PreFlightOutcome ==
  (tpc = "preflight" /\ tpc' # "preflight") =>
    IF ListingHasNewType
    THEN /\ tpc' = "returned"
         /\ toolResponse' = BlockingResponse(detectNewTypes(apiResult'.value))
    ELSE tpc' = "handler"

AllLogged == [k \in 1..logged |-> CorrectionEntry("posts", "list", k, k)]

\* C24: after any sequence of logCorrection calls the log holds at most 100
\* entries, and they are the most recently logged ones in logging order.
C24_LastHundredKept ==
  /\ Len(corrections_log) <= 100
  /\ Len(corrections_log) = IF logged < 100 THEN logged ELSE 100
  /\ corrections_log = SubSeq(AllLogged, logged - Len(corrections_log) + 1, logged)
  /\ Len(getCorrections(100)) <= 100

\* Three corrections were logged into a full log: the three oldest are gone.
C24_Witness ==
  /\ logged = 103 /\ Len(corrections_log) = 100
  /\ corrections_log[1].issue = 4 /\ corrections_log[100].issue = 103

\* ---------------------------------------------------------------------------
\* C25: create with the slug of an existing post.

\* The call c carries a slug for which the site had a post when it was made.
SlugTaken(c) == calls[c].slug # "" /\ calls[c].hadPost

\* The call c has sent, or is about to send, a create request to the
\* collection path.
OnCreatePath(c) == calls[c].pc \in {"create", "creating"}

\* C25: a create call with a slug for which WordPress already has a post
\* updates that post and returns idempotent_hit true, and never sends a
\* create request to the collection path; without a slug no lookup is made
\* and a new post is created.
C25_SlugCreateIdempotent ==
  \A c \in Callers :
    /\ SlugTaken(c) =>
         /\ ~OnCreatePath(c)
         /\ (calls[c].pc = "returned" /\ calls[c].title # "") =>
              calls[c].response.idempotent_hit
    /\ (calls[c].slug = "" /\ calls[c].title # "") =>
         /\ calls[c].pc \in {"create", "creating", "returned"}
         /\ calls[c].pc = "returned" => ~calls[c].response.idempotent_hit

\* ---------------------------------------------------------------------------
\* C29: two create calls with the same slug.

\* The create requests sent to the collection path with the slug s.
CreatesSent(s) == {k \in DOMAIN sent : sent[k].id = 0 /\ sent[k].slug = s}

\* C29: for any interleaving of create calls that carry the same slug, at
\* most one of them sends a create request to the collection path.
C29_OneCreatePerSlug == \A s \in PostSlugs : Cardinality(CreatesSent(s)) <= 1

\* ---------------------------------------------------------------------------
\* C26: the lines inside a code fence.

\* The loop is about to read a line while a code fence is open.
ReadsInFence == pc = "loop" /\ i <= Len(lines) /\ inCode

\* C26: while a code fence is open, every line that is not a fence line is
\* buffered as code content and nothing is emitted for it, whatever it looks
\* like; the closing fence emits the single code fragment holding the
\* buffered lines, HTML-escaped, in input order.
C26_FenceBuffersEveryLine ==
  [][ReadsInFence =>
        IF IsFence(lines[i])
        THEN ~inCode' /\ output' = output \o CodeFragment(codeLines)
        ELSE inCode' /\ codeLines' = Append(codeLines, lines[i]) /\ output' = output]_vars

\* ---------------------------------------------------------------------------
\* C27: the flush at the end of the input.

\* The loop has read every line.
AtEndOfInput == pc = "loop" /\ i > Len(lines)

\* The places where the lines ls hold the fragment as a contiguous run.
Occurrences(ls, fragment) ==
  {k \in 0..(Len(ls) - Len(fragment)) : SubSeq(ls, k + 1, k + Len(fragment)) = fragment}

\* The fragments of the structures open at the end of the input.
OpenFragments ==
  (IF inBlockquote THEN {QuoteFragment(blockquoteLines)} ELSE {})
    \cup (IF inList THEN {ListFragment(listOrdered, listItems)} ELSE {})
    \cup (IF inTable THEN {TableFragment(tableHeaderRow, tableDataRows)} ELSE {})

\* C27: when the input ends while a list, a table or a blockquote is open,
\* the final flushAll emits it: the output grows by the fragments of the
\* open structures and by nothing else, each fragment is there exactly once
\* and is in the returned text, and no structure stays open.
C27_EndFlushEmitsOnce ==
  [][AtEndOfInput =>
       LET added == SubSeq(output', Len(output) + 1, Len(output'))
       IN /\ SubSeq(output', 1, Len(output)) = output
          /\ Len(added) = 4 * Cardinality(OpenFragments)
          /\ \A fragment \in OpenFragments :
               /\ Cardinality(Occurrences(added, fragment)) = 1
               /\ ContainsLines(result', Body(fragment))
          /\ ~inList' /\ ~inTable' /\ ~inBlockquote'
          /\ listItems' = <<>> /\ tableDataRows' = <<>> /\ blockquoteLines' = <<>>]_vars

\* The input ended inside a table with one data row: the table fragment is
\* the end of the returned text.
C27_Witness ==
  /\ pc = "done" /\ lines = <<LPara, LRow, LSep, LRow>>
  /\ Len(result) = 7
  /\ result[5] = <<"<!-- wp:", "table", " -->">>
  /\ result[7] = <<"<!-- /wp:", "table", " -->">>

\* ---------------------------------------------------------------------------
\* C28: an opening marker inside an open hint.

\* The hint kinds whose opening marker is in the line.
OpenedKinds(line) ==
  (IF Has(line, "<!-- @click-to-tweet") THEN {"click-to-tweet"} ELSE {})
    \cup (IF Has(line, "<!-- @protip") THEN {"protip"} ELSE {})
    \cup (IF Has(line, "<!-- @discount") THEN {"discount"} ELSE {})
    \cup (IF HasPair(line, "<!-- @faq", " -->") THEN {"faq"} ELSE {})
    \cup (IF HasPair(line, "<!-- @key-takeaways", " -->") THEN {"key-takeaways"} ELSE {})
    \cup (IF HasThenSpace(line, "<!-- @jump-links") THEN {"jump-links"} ELSE {})
    \cup (IF HasThenSpace(line, "<!-- @data-lab") THEN {"data-lab"} ELSE {})
    \cup (IF HasThenSpace(line, "<!-- @product-roundup") THEN {"product-roundup"} ELSE {})

\* The loop is about to read an opening marker while a hint other than a
\* product-roundup is open.
OpensInsideHint ==
  /\ pc = "hints" /\ i <= Len(lines)
  /\ ~(inBlock \in {"", "product-roundup"})
  /\ OpenedKinds(lines[i]) # {}

\* C28: an opening marker met while another non-product hint is open
\* abandons the earlier hint: nothing is emitted for its buffered lines, and
\* the state moves to the new kind with an empty buffer.
C28_OpenerAbandonsHint ==
  [][OpensInsideHint =>
       /\ output' = output
       /\ inBlock' \in OpenedKinds(lines[i])
       /\ blockBuf' = <<>>]_vars

\* A protip with one buffered line was abandoned by the faq marker.
C28_Witness ==
  /\ pc = "hints" /\ lines = <<EProTip, EText, EFaq>> /\ i = 4
  /\ inBlock = "faq" /\ blockBuf = <<>> /\ output = <<>>

\* ---------------------------------------------------------------------------
\* C30: a get in flight at a mutation.

\* The post, put and delete calls whose first request is still unanswered:
\* req is the number of the request sent by the call itself.
MutationsInFlight ==
  {r \in pending : r.method # "GET" /\ r.retries = DefaultRetries /\ r.delays = <<>>}

\* C30: the cache never holds an entry whose network request was sent
\* before the most recent mutation call (requests are numbered in the order
\* they are sent, and an entry holds the number of its request).
C30_NoEntryFromBeforeMutation ==
  \A r \in MutationsInFlight : \A key \in DOMAIN cache : cache[key].data > r.req

\* ---------------------------------------------------------------------------
\* C31: the three flushable buffers.

\* The flushable buffers that are open.
OpenBuffers ==
  (IF inList THEN {"list"} ELSE {})
    \cup (IF inTable THEN {"table"} ELSE {})
    \cup (IF inBlockquote THEN {"blockquote"} ELSE {})

\* C31: at every step of a markdownToGutenberg run at most one of list,
\* table and blockquote is open, so flushAll emits at most one fragment and
\* closing the three in the opposite order gives the same state.
C31_OneFlushableOpen ==
  /\ Cardinality(OpenBuffers) <= 1
  /\ Len(flushAll(ConvState).output) <= Len(output) + 4
  /\ flushAll(ConvState) = flushBlockquote(flushList(flushTable(ConvState)))

\* A list is open after a table and a blockquote were closed, each by the
\* line of the next kind.
C31_Witness ==
  /\ pc = "loop" /\ lines = <<LRow, LQuote, LUl>> /\ i = 4
  /\ OpenBuffers = {"list"} /\ Len(output) = 8

\* ---------------------------------------------------------------------------
\* C32: the passthrough depth counter.

\* The depth is not negative, and the buffer holds lines exactly when a
\* region is open.
DepthMatchesBuffer ==
  /\ inGutenbergBlock >= 0
  /\ (gutenbergLines # <<>>) <=> (inGutenbergBlock > 0)

\* The change of the depth the line asks for inside a region.
DepthChange(line) ==
  IF StartsWith(line, "<!-- /wp:") THEN -1
  ELSE IF StartsWith(line, "<!-- wp:") /\ ~EndsWith(line, "/-->") THEN 1
  ELSE 0

\* The loop is about to read a line inside a passthrough region.
ReadsInRegion == pc = "loop" /\ i <= Len(lines) /\ inGutenbergBlock > 0

\* C32: the passthrough depth is never negative and the passthrough buffer
\* is non-empty exactly when the depth is above zero; inside a region the
\* depth rises by one on a non-self-closing opening line and falls by one
\* on a closing line, and the region is emitted and the buffer emptied when
\* the depth reaches zero.
C32_DepthCounter ==
  /\ []DepthMatchesBuffer
  /\ [][ReadsInRegion =>
          /\ inGutenbergBlock' = inGutenbergBlock + DepthChange(lines[i])
          /\ IF inGutenbergBlock' = 0
             THEN /\ output' = output \o Append(gutenbergLines, lines[i])
                  /\ gutenbergLines' = <<>>
             ELSE /\ output' = output
                  /\ gutenbergLines' = Append(gutenbergLines, lines[i])]_vars

\* A region nested in a region: the inner close left the outer one open.
C32_Witness ==
  /\ pc = "loop" /\ lines = <<LWpOpen, LWpOpen, LWpClose, LWpClose>> /\ i = 4
  /\ inGutenbergBlock = 1 /\ Len(gutenbergLines) = 3 /\ output = <<>>

\* ---------------------------------------------------------------------------
\* C33: a CTA line inside an open hint.

\* The loop of enhanceHints is about to read a CTA line while a hint is open.
CtaInsideHint ==
  pc = "hints" /\ i <= Len(lines) /\ inBlock # "" /\ IsCtaLine(lines[i])

\* The loop is about to read the end marker of a product-roundup whose body
\* holds a CTA line.
ClosesProductWithCta ==
  /\ pc = "hints" /\ i <= Len(lines) /\ inBlock = "product-roundup"
  /\ HasPair(lines[i], "<!-- @end-product", " -->")
  /\ \E k \in 1..Len(blockBuf) : IsCtaLine(blockBuf[k])

\* The last CTA line of a product-roundup body.
LastCta(buf) ==
  buf[CHOOSE k \in 1..Len(buf) :
        IsCtaLine(buf[k]) /\ \A m \in (k + 1)..Len(buf) : ~IsCtaLine(buf[m])]

\* The lines the step appended to the output.
Appended == SubSeq(output', Len(output) + 1, Len(output'))

\* C33: a CTA line read while another hint is open emits nothing at that
\* point and is appended to the buffer of the open hint, which stays open;
\* inside a product-roundup the button of the buffered CTA line is part of
\* the fragment emitted at the end-product marker.
C33_CtaInsideHintBuffered ==
  /\ [][CtaInsideHint =>
          /\ output' = output
          /\ inBlock' = inBlock
          /\ blockBuf' = Append(blockBuf, lines[i])]_vars
  /\ [][ClosesProductWithCta =>
          \E ids \in [1..2 -> Uids] :
            ContainsLines(Appended, genCta(LastCta(blockBuf), ids))]_vars

\* A product-roundup with a CTA line in its body has been closed: the
\* opening headline block, the button and the closing line are the output.
C33_Witness ==
  /\ pc = "hints" /\ lines = <<EProduct, ECta, EEndProduct>> /\ i = 4
  /\ inBlock = "" /\ Len(output) = 10
  /\ \E ids \in [1..2 -> Uids] : ContainsLines(output, genCta(ECta, ids))

\* ---------------------------------------------------------------------------
\* C34: the product-roundup is closed by its own end marker only.

\* The loop of enhanceHints is about to read a line inside a product-roundup.
ReadsInProduct == pc = "hints" /\ i <= Len(lines) /\ inBlock = "product-roundup"

IsEndProduct(line) == HasPair(line, "<!-- @end-product", " -->")

\* C34: while a product-roundup is open, a line without the end-product
\* marker is appended to the buffer and changes neither inBlock, blockAttrs
\* nor the output, whatever marker it holds; the line with the end-product
\* marker appends one composite fragment, from its opening container line
\* to its closing one, and closes the hint.
C34_OnlyEndProductCloses ==
  [][ReadsInProduct =>
       IF IsEndProduct(lines[i])
       THEN /\ inBlock' = "" /\ blockBuf' = <<>> /\ blockAttrs' = <<>>
            /\ SubSeq(output', 1, Len(output)) = output
            /\ Len(Appended) >= 5
            /\ {k \in 1..Len(Appended) : Has(Appended[k], "\",\"anchor\":\"")} = {1}
            /\ Appended[Len(Appended)] = <<"<!-- /wp:", "generateblocks/container", " -->">>
       ELSE /\ inBlock' = inBlock /\ blockAttrs' = blockAttrs
            /\ output' = output
            /\ blockBuf' = Append(blockBuf, lines[i])]_vars

\* The end marker of the other hints and an opening marker have been read
\* inside a product-roundup, which is still open.
C34_Witness ==
  /\ pc = "hints" /\ lines = <<EProduct, EEnd, EFaq>> /\ i = 4
  /\ inBlock = "product-roundup" /\ blockBuf = <<EEnd, EFaq>> /\ output = <<>>

\* ---------------------------------------------------------------------------
\* C35: the order of the parts of the product-roundup composite.

\* The parts in their fixed order: 1 name headline, 2 accolade, 3 image,
\* 4 stats accordion, 5 CTA button, 6 discount.
ProductParts == 1..6

\* The token the opening line of part n holds and no other line does.
PartToken(n) ==
  CASE n = 1 -> "\",\"className\":\"product-name\"}"
    [] n = 2 -> "\",\"className\":\"product-accolade\"}"
    [] n = 3 -> "image"
    [] n = 4 -> "\",\"variantRole\":\"accordion\"}"
    [] n = 5 -> "\",\"metadata\":{\"name\":\"CTA Button Container\"}}"
    [] n = 6 -> "\",\"className\":\"discount-container\"}"

\* The marker that starts the sub-section of part n in the input.
SubMarker(n) ==
  CASE n = 2 -> "<!-- @accolade" [] n = 3 -> "<!-- @image" [] n = 4 -> "<!-- @stats"
    [] n = 5 -> "<!-- @cta" [] n = 6 -> "<!-- @discount" [] OTHER -> ""

\* The marker that ends the sub-section of part n in the input.
EndMarker(n) ==
  CASE n = 2 -> "<!-- @end-accolade" [] n = 3 -> "<!-- @end-image"
    [] n = 6 -> "<!-- @end-discount" [] OTHER -> ""

\* The positions where part n starts in the fragment ls.
PartAt(ls, n) == {k \in 1..Len(ls) : Has(ls[k], "<!-- wp:") /\ Has(ls[k], PartToken(n))}

\* The sub-section of part n is in the body buf, with content.
SubPresent(buf, n) ==
  IF n = 4
  THEN \E k \in 1..(Len(buf) - 1) :
         HasPair(buf[k], "<!-- @stats", " -->") /\ buf[k + 1] \in {EBullet, EText}
  ELSE IF n = 5
  THEN \E k \in 1..Len(buf) : HasThenSpace(buf[k], "<!-- @cta")
  ELSE \E k \in 1..Len(buf) : HasInline(buf[k], SubMarker(n), EndMarker(n))

SubAbsent(buf, n) == \A k \in 1..Len(buf) : ~Has(buf[k], SubMarker(n))

ReadsUnclosedShortcode ==
  /\ pc = "loop" /\ i <= Len(lines)
  /\ inGutenbergBlock = 0 /\ ~inCode /\ ~inShortcode
  /\ ShortcodeOpenTag(lines[i]) # NoTag
  /\ ~HasClosing(SubSeq(lines, i + 1, Len(lines)), ShortcodeOpenTag(lines[i]))
  /\ ~IncludesClosingTag(lines[i], ShortcodeOpenTag(lines[i]))

\* The paragraph fragment of line.
ParagraphOf(line) ==
  << <<"<!-- wp:", "paragraph", " -->">>,
     <<"<p>">> \o inlineFormat(line) \o <<"</p>">>,
     <<"<!-- /wp:", "paragraph", " -->">>,
     <<>> >>

\* C36: a line that opens with a shortcode tag and has no closing tag, on the
\* line or at the start of a later line, does not start shortcode mode and
\* adds no shortcode fragment; it goes through the later rules, which close
\* an open table, blockquote or list and end by appending the line as a
\* paragraph fragment, and the loop goes on.
C36_UnclosedShortcodeIsParagraph ==
  [][ReadsUnclosedShortcode =>
       /\ ~inShortcode' /\ shortcodeTag' = "" /\ shortcodeLines' = <<>>
       /\ \A k \in 1..Len(Appended) : ~Has(Appended[k], "shortcode")
       /\ Len(Appended) >= 4
       /\ SubSeq(Appended, Len(Appended) - 3, Len(Appended)) = ParagraphOf(lines[i])
       /\ ~inTable' /\ ~inBlockquote' /\ ~inList'
       /\ pc' = "loop" /\ i' = i + 1]_vars

\* An opening tag without a closing tag has been read after a list item: the
\* list and the paragraph are in the output.
C36_Witness ==
  /\ pc = "loop" /\ lines = <<LUl, LScOpen>> /\ i = 3
  /\ ~inShortcode /\ ~inList
  /\ Len(output) > 4
  /\ SubSeq(output, Len(output) - 3, Len(output)) = ParagraphOf(LScOpen)

\* ---------------------------------------------------------------------------
\* C37: the pairs of the FAQ generator.

\* line is a question, in the heading or in the bold syntax.
IsFaqQuestion(line) ==
  Trim(line) # <<>> /\ (IsFaqHeading(Trim(line)) \/ IsFaqBoldQuestion(Trim(line)))

\* The text of the question line.
QuestionText(line) ==
  IF IsFaqHeading(Trim(line)) THEN FaqHeadingQuestion(Trim(line))
  ELSE FaqBoldQuestion(Trim(line))

\* The text of an answer line.
AnswerText(line) ==
  IF IsFaqBoldAnswer(Trim(line)) THEN FaqBoldAnswer(Trim(line)) ELSE Trim(line)

\* The positions after the question at k up to the next question or the end.
AnswerRange(buf, k) ==
  {m \in (k + 1)..Len(buf) : \A j \in (k + 1)..m : ~IsFaqQuestion(buf[j])}

\* The non-blank lines that follow the question at k, in input order.
AnswersOf(buf, k) ==
  LET range  == AnswerRange(buf, k)
      follow == [j \in 1..Cardinality(range) |-> buf[k + j]]
  IN SelectSeq(follow, LAMBDA l : Trim(l) # <<>>)

\* The questions of buf that have an answer, in input order.
AnsweredQuestions(buf) ==
  LET idx == [k \in 1..Len(buf) |-> k]
  IN SelectSeq(idx, LAMBDA k : IsFaqQuestion(buf[k]) /\ AnswersOf(buf, k) # <<>>)

\* The loop of enhanceHints is about to read the end marker of a FAQ hint.
ClosesFaq ==
  /\ pc = "hints" /\ i <= Len(lines) /\ inBlock = "faq"
  /\ HasPair(lines[i], "<!-- @end", " -->") /\ ~OpensHint(lines[i])

\* C37: the FAQ fragment holds one item for every question of the buffer
\* that is followed by an answer line before the next question or the end
\* of the buffer, in input order, with the text of the question and the
\* answer lines joined by a space; every item has a non-empty question and
\* answer, a question without an answer has no item in the heading and in
\* the bold syntax alike, and lines before the first question are in no
\* item.
C37_FaqPairsAnswered ==
  [][ClosesFaq =>
       LET qs == AnsweredQuestions(blockBuf)
           n  == Len(qs)
       IN /\ Len(Appended) = 4 + (IF n = 0 THEN 1 ELSE n)
          /\ n = 0 => Appended[3] = <<>>
          /\ \A k \in 1..n :
               LET q == QuestionText(blockBuf[qs[k]])
                   a == JoinWith([j \in 1..Len(AnswersOf(blockBuf, qs[k])) |->
                                    AnswerText(AnswersOf(blockBuf, qs[k])[j])], " ")
               IN /\ q # <<>> /\ a # <<>>
                  /\ Appended[2 + k] = FaqItemHtml([q |-> q, a |-> a])]_vars

\* A bold question without an answer, then a heading question with one, and
\* the hint has been closed: the fragment holds the second question only.
C37_Witness ==
  /\ pc = "hints" /\ lines = <<EFaq, EText, EBoldQ, EQuestion, EBoldA, EEnd>> /\ i = 7
  /\ inBlock = "" /\ Len(output) = 5
  /\ output[3] = FaqItemHtml([q |-> <<"q", "?">>, a |-> <<"b">>])

\* ---------------------------------------------------------------------------
\* C38: the identifiers of the key-takeaways items.

\* The loop of enhanceHints is about to read the end marker of a
\* key-takeaways hint.
ClosesKeyTakeaways ==
  /\ pc = "hints" /\ i <= Len(lines) /\ inBlock = "key-takeaways"
  /\ HasPair(lines[i], "<!-- @end", " -->") /\ ~OpensHint(lines[i])

\* The uniqueId attributes of the item blocks of a fragment, in order.
ItemIds(fragment) ==
  LET opening == SelectSeq(fragment,
                   LAMBDA l : Has(l, "\",\"globalClasses\":[\"key-takeaways-item\"]}"))
  IN [k \in 1..Len(opening) |-> opening[k][5]]

\* The number of lines of buf that are list items.
BulletCount(buf) ==
  Cardinality({k \in 1..Len(buf) :
                 Len(Trim(buf[k])) >= 2 /\ Trim(buf[k])[1] = "-" /\ Trim(buf[k])[2] = " "})

PoolSize == Len(KEY_TAKEAWAY_HEADLINE_IDS)

\* Every item of the fragment has the pool entry of its position in the
\* rotation.
IdsFollowRotation(buf, fragment) ==
  /\ Len(ItemIds(fragment)) = BulletCount(buf)
  /\ \A k \in 1..Len(ItemIds(fragment)) :
       ItemIds(fragment)[k] = KEY_TAKEAWAY_HEADLINE_IDS[((k - 1) % PoolSize) + 1]

\* C38 (as stated): every item of a key-takeaways fragment has the pool
\* entry of its position in the rotation, and no two items of the fragment
\* have the same identifier.
C38_ItemIdsUnique ==
  [][ClosesKeyTakeaways =>
       /\ IdsFollowRotation(blockBuf, Appended)
       /\ \A j, k \in 1..Len(ItemIds(Appended)) :
            j # k => ItemIds(Appended)[j] # ItemIds(Appended)[k]]_vars

\* C38 (amended): every item of a key-takeaways fragment has the pool entry
\* of its position in the rotation; two items have the same identifier
\* exactly when their positions differ by a multiple of the pool size, so
\* the identifiers are pairwise different in a fragment of at most
\* PoolSize items and repeat from item PoolSize + 1 on.
C38_ItemIdsRotate ==
  [][ClosesKeyTakeaways =>
       /\ IdsFollowRotation(blockBuf, Appended)
       /\ \A j, k \in 1..Len(ItemIds(Appended)) :
            j < k => ((ItemIds(Appended)[j] = ItemIds(Appended)[k])
                        <=> ((k - j) % PoolSize = 0))]_vars

\* A key-takeaways hint with nine items has been closed: the ninth item has
\* the identifier of the first.
C38_Witness ==
  /\ pc = "hints" /\ Len(lines) = 11 /\ i = 12 /\ inBlock = ""
  /\ \A k \in 2..10 : lines[k] = EBullet
  /\ Len(ItemIds(output)) = 9
  /\ ItemIds(output)[9] = ItemIds(output)[1]
  /\ ItemIds(output)[8] # ItemIds(output)[1]

\* ---------------------------------------------------------------------------
\* C39: what stripAiCommentary returns.

\* The first loop steps over the line.
SkippedAtTop(line) == ~isContentStart(line) /\ isPreambleLine(line)

\* The first line the first loop stops at; Len(ls) + 1 when it stops at none.
FirstRealOf(ls) ==
  IF \A k \in 1..Len(ls) : SkippedAtTop(ls[k]) THEN Len(ls) + 1
  ELSE CHOOSE k \in 1..Len(ls) :
         ~SkippedAtTop(ls[k]) /\ \A j \in 1..(k - 1) : SkippedAtTop(ls[j])

\* The last line from first on that is not a postamble line; first - 1 when
\* there is none.
LastRealOf(ls, first) ==
  IF \A k \in first..Len(ls) : isPostambleLine(ls[k]) THEN first - 1
  ELSE CHOOSE k \in first..Len(ls) :
         ~isPostambleLine(ls[k]) /\ \A j \in (k + 1)..Len(ls) : isPostambleLine(ls[j])

\* The lines first..last of ls, without the whitespace before the first and
\* after the last of them; no line is dropped.
RangeText(ls, first, last) ==
  [k \in 1..(last - first + 1) |->
     LET l  == ls[first + k - 1]
         l1 == IF k = 1 THEN TrimStart(l) ELSE l
     IN IF k = last - first + 1 THEN TrimEnd(l1) ELSE l1]

EmptyText == << <<>> >>

\* Every line of ls is a preamble line or a postamble line (blank lines and
\* dividers are both).
OnlyCommentary(ls) == \A k \in 1..Len(ls) : isPreambleLine(ls[k]) \/ isPostambleLine(ls[k])

\* ls is a run of lines the first loop skips followed by a run of postamble
\* lines; either run may be empty.
PreambleThenPostamble(ls) ==
  \E j \in 0..Len(ls) :
    /\ \A k \in 1..j : SkippedAtTop(ls[k])
    /\ \A k \in (j + 1)..Len(ls) : isPostambleLine(ls[k])

\* The result is empty when lastReal precedes firstReal and the lines
\* firstReal..lastReal, trimmed at the two ends, otherwise.
ReturnsRange ==
  /\ firstReal = FirstRealOf(lines)
  /\ lastReal = LastRealOf(lines, firstReal)
  /\ result = (IF lastReal < firstReal THEN EmptyText
               ELSE RangeText(lines, firstReal, lastReal))

\* C39 (as stated): stripAiCommentary returns the empty text when the last
\* real line precedes the first real line, in particular for every input
\* made only of preamble, postamble, blank and divider lines, and the
\* range of lines from the first real to the last real one otherwise.
C39_CommentaryOnlyIsEmpty ==
  pc = "stripped" =>
    /\ ReturnsRange
    /\ OnlyCommentary(lines) => result = EmptyText

\* C39 (amended): stripAiCommentary returns the empty text exactly when the
\* last real line precedes the first real line, which is the case exactly
\* for the inputs that are a run of preamble, blank and divider lines
\* followed by a run of postamble, blank and divider lines; otherwise it
\* returns the lines from the first real to the last real one, none
\* dropped, without the whitespace at the two ends of the range.
C39_RangeOrEmpty ==
  pc = "stripped" =>
    /\ ReturnsRange
    /\ (result = EmptyText) <=> (lastReal < firstReal)
    /\ (lastReal < firstReal) <=> PreambleThenPostamble(lines)
    /\ lastReal >= firstReal => Len(result) = lastReal - firstReal + 1

\* A postamble phrase above a preamble phrase: both lines are returned.
C39_Witness ==
  /\ pc = "stripped" /\ lines = <<SPostamble, SPreamble>>
  /\ OnlyCommentary(lines)
  /\ firstReal = 1 /\ lastReal = 2 /\ result = lines

\* ---------------------------------------------------------------------------
\* C40: stripAiCommentary applied to its own result.

\* The invocation on the result of the first invocation has returned.
SecondStripped == call = 2 /\ pc = "stripped"

\* C40: stripAiCommentary is idempotent: the invocation on the text the
\* first invocation returned returns that text unchanged, for every input.
C40_StripIdempotent == SecondStripped => result = lines

\* The first invocation removed a preamble line, a postamble line, a blank
\* line and the whitespace at the end; the second one changed nothing.
C40_Witness ==
  /\ SecondStripped
  /\ earlier = <<SPreamble, SPadded, LBlank, SPostamble>>
  /\ lines = <<SPara>> /\ result = <<SPara>>

====
